---------------------------- MODULE Spec2Model ----------------------------
(***************************************************************************)
(* Urbanite parking aid: the button, two ultrasound, two display, the      *)
(* buzzer and the orchestrator ("Urbanite") state machines, fired once per *)
(* iteration by the polling loop of main.c, with the interrupt service     *)
(* routines of interr.c as asynchronous steps between two fires.           *)
(***************************************************************************)
EXTENDS Integers, Sequences, FiniteSets, TLC

(***************************************************************************)
(* Bounds of the model                                                     *)
(***************************************************************************)
\* SysTick stops being counted at this value of the millisecond clock.
MaxMillis == 7
\* The same, for the runs of SpecLostEcho.
MaxMillisLong == 18
\* TIM2 update interrupts are counted up to this many overflows per echo.
MaxOverflows == 1
\* Milliseconds simulated by SpecRestart
MaxMillisRestart == 4
MaxMillisResume == 1
MaxMillisSwap == 2
\* Distances of SpecLevels range over -DistanceMargin .. OK_MAX_CM + DistanceMargin.
DistanceMargin == 5
\* Thresholds of SpecTiers range over 1 .. MaxThreshold.
MaxThreshold == 3

(***************************************************************************)
(* Program constants                                                       *)
(***************************************************************************)
HIGH_DANGER_MIN_CM == 0
DANGER_MIN_CM == 5
WARNING_MIN_CM == 25
NO_PROBLEM_MIN_CM == 50
INFO_MIN_CM == 150
OK_MIN_CM == 175
OK_MAX_CM == 200
PORT_DISPLAY_RGB_MAX_VALUE == 255
PORT_BUZZER_MAX_VALUE == 255
PORT_BUZZER_MIN_VALUE == 0
\* fsm_ultrasound.h is not part of the sources at hand: the window size and
\* the speed of sound are those the design document gives (median of N, N odd;
\* 343 m/s).
FSM_ULTRASOUND_NUM_MEASUREMENTS == 3
SPEED_OF_SOUND_MS == 343

TimerModulus == 65536

Sensors == {"front", "rear"}

\* Construction parameters main() passes to fsm_button_new() and
\* fsm_urbanite_new(): the debounce time and the three press-time thresholds,
\* in milliseconds, scaled down to a few ticks.
\* ShortConfig leaves the change tier empty (change = on_off): every press
\* that is long enough for a swap turns the system on or off.
ShortConfig == [debounce |-> 0, pause |-> 2, change |-> 3, on_off |-> 3]
\* TierConfig has the three tiers of main.c, each one tick wide.
TierConfig == [debounce |-> 0, pause |-> 2, change |-> 3, on_off |-> 4]
\* DebounceConfig debounces, with thresholds no press of the run can reach.
DebounceConfig == [debounce |-> 2, pause |-> 20, change |-> 30, on_off |-> 40]

\* Values TIM2's capture register holds at an echo edge (1 us per tick; the
\* counter is zeroed when the trigger is raised and reloads at 65535).
RiseTicks == {1}
FallTicks == {600, 1200}

VARIABLES
    millis,        \* port_system: msTicks
    pc,            \* main(): index of the next fire of the loop body (0..6)
    flag_pressed,  \* stm32f4_button_hw_t.flag_pressed
    button,        \* fsm_button_t
    us,            \* fsm_ultrasound_t, per sensor
    hw,            \* stm32f4_ultrasound_hw_t and the sensor's own timers, per sensor
    tim2_on,       \* TIM2->CR1.CEN, the echo timer both sensors share
    echo_line,     \* the HC-SR04 echo pin, per sensor: which edge comes next
    display,       \* fsm_display_t and the colour last written, per sensor
    buzzer,        \* fsm_buzzer_t and the sound last written
    urbanite,      \* fsm_urbanite_t
    log,           \* tag of the last line the orchestrator printed
    pulse_ms,      \* observer: how long the pin has been / was last held,
                   \*   counted up to the debounce time
    off_iterations, \* observer: loop iterations completed since the
                    \*   orchestrator entered OFF, counted up to two
    batch          \* observer: the samples each sensor has recorded since its
                   \*   last start() or its last full window

vars == << millis, pc, flag_pressed, button, us, hw, tim2_on, echo_line,
           display, buzzer, urbanite, log, pulse_ms, off_iterations, batch >>

(***************************************************************************)
(* 32-bit unsigned arithmetic of do_set_distance, on (hi, lo) 16-bit halves *)
(***************************************************************************)
\* (end + overflows * 65536 - init) mod 2^32, as << hi, lo >>
EchoTime(overflows, init, end) ==
    LET d == end - init
    IN  IF d >= 0
        THEN << overflows % TimerModulus, d >>
        ELSE << (overflows + TimerModulus - 1) % TimerModulus, d + TimerModulus >>

\* (time * SPEED_OF_SOUND_MS) mod 2^32 / 20000
EchoDistance(overflows, init, end) ==
    LET t   == EchoTime(overflows, init, end)
        plo == t[2] * SPEED_OF_SOUND_MS
        lo  == plo % TimerModulus
        hi  == (t[1] * SPEED_OF_SOUND_MS + plo \div TimerModulus) % TimerModulus
        q1  == hi \div 20000
        r1  == hi % 20000
    IN  q1 * TimerModulus + (r1 * TimerModulus + lo) \div 20000

\* qsort() with _compare on a window of small values: ascending order
SortWindow(arr) == SortSeq(arr, LAMBDA a, b : a < b)


(***************************************************************************)
(* Generic engine                                                          *)
(***************************************************************************)
\* fsm_fire(): index of the first row, in table order, whose source state is
\* the current state and whose guard is true; 0 when no row matches (the FSM
\* keeps its state and runs no action).
\* Faulty variant of fsm_fire: the last matching row is taken.
fsm_fire_last(current_state, table) ==
    LET hits == { i \in DOMAIN table :
                    table[i].src = current_state /\ table[i].guard }
    IN  IF hits = {} THEN 0
        ELSE CHOOSE i \in hits : \A j \in hits : i >= j

fsm_fire(current_state, table) ==
    LET hits == { i \in DOMAIN table :
                    table[i].src = current_state /\ table[i].guard }
    IN  IF hits = {} THEN 0
        ELSE CHOOSE i \in hits : \A j \in hits : i <= j

(***************************************************************************)
(* Button (fsm_button.c, stm32f4_button.c)                                 *)
(***************************************************************************)
port_button_get_pressed == flag_pressed

check_button_pressed == port_button_get_pressed

check_button_released == ~port_button_get_pressed

\* Faulty variant of check_timeout: the wait ends one millisecond early.
check_timeout_early == millis >= button.next_timeout

check_timeout == millis > button.next_timeout

\* Faulty variant of do_store_tick_pressed: the start of a press clears the
\* duration of the previous one.
do_store_tick_pressed_clears(b) ==
    [b EXCEPT !.tick_pressed = millis,
              !.next_timeout = millis + b.debounce_time_ms,
              !.duration = 0]

do_store_tick_pressed(b) ==
    [b EXCEPT !.tick_pressed = millis,
              !.next_timeout = millis + b.debounce_time_ms]

\* Faulty variant of do_set_duration: the debounce time is taken off the
\* duration.
do_set_duration_less_debounce(b) ==
    [b EXCEPT !.duration = millis - b.tick_pressed - b.debounce_time_ms,
              !.next_timeout = millis + b.debounce_time_ms]

do_set_duration(b) ==
    [b EXCEPT !.duration = millis - b.tick_pressed,
              !.next_timeout = millis + b.debounce_time_ms]

fsm_trans_button ==
    << [src |-> "BUTTON_RELEASED", guard |-> check_button_pressed,
        dst |-> "BUTTON_PRESSED_WAIT", action |-> "do_store_tick_pressed"],
       [src |-> "BUTTON_PRESSED_WAIT", guard |-> check_timeout,
        dst |-> "BUTTON_PRESSED", action |-> "NULL"],
       [src |-> "BUTTON_PRESSED", guard |-> check_button_released,
        dst |-> "BUTTON_RELEASED_WAIT", action |-> "do_set_duration"],
       [src |-> "BUTTON_RELEASED_WAIT", guard |-> check_timeout,
        dst |-> "BUTTON_RELEASED", action |-> "NULL"] >>

\* The next_timeout field is left unset by fsm_button_init(); it is written by
\* do_store_tick_pressed before check_timeout first reads it.
fsm_button_init(debounce_time) ==
    [state |-> "BUTTON_RELEASED", debounce_time_ms |-> debounce_time,
     next_timeout |-> 0, tick_pressed |-> 0, duration |-> 0]

fsm_button_get_duration(b) == b.duration

fsm_button_reset_duration(b) == [b EXCEPT !.duration = 0]

fsm_button_check_activity(b) == b.state # "BUTTON_RELEASED"

ButtonAfterFire ==
    LET i == fsm_fire(button.state, fsm_trans_button)
    IN  IF i = 0 THEN button
        ELSE LET row == fsm_trans_button[i]
                 b   == IF row.action = "do_store_tick_pressed"
                            THEN do_store_tick_pressed(button)
                        ELSE IF row.action = "do_set_duration"
                            THEN do_set_duration(button)
                        ELSE button
             IN  [b EXCEPT !.state = row.dst]

(***************************************************************************)
(* Display (fsm_display.c, port_display.h, stm32f4_display.c)              *)
(***************************************************************************)
COLOR_RED == << PORT_DISPLAY_RGB_MAX_VALUE, 0, 0 >>
COLOR_GREEN == << 0, PORT_DISPLAY_RGB_MAX_VALUE, 0 >>
COLOR_BLUE == << 0, 0, PORT_DISPLAY_RGB_MAX_VALUE >>
COLOR_YELLOW == << (PORT_DISPLAY_RGB_MAX_VALUE * 37) \div 100,
                   (PORT_DISPLAY_RGB_MAX_VALUE * 37) \div 100, 0 >>
COLOR_TURQUOISE == << PORT_DISPLAY_RGB_MAX_VALUE \div 10,
                      (PORT_DISPLAY_RGB_MAX_VALUE * 35) \div 100,
                      (PORT_DISPLAY_RGB_MAX_VALUE * 32) \div 100 >>
COLOR_OFF == << 0, 0, 0 >>

\* One channel of _linear_interp, stored into a uint8_t field.
InterpChannel(inf, sup, distance_inf, distance_sup, distance_cm) ==
    ( (inf * (distance_sup - distance_cm)) \div (distance_sup - distance_inf)
    + (sup * (distance_cm - distance_inf)) \div (distance_sup - distance_inf) ) % 256

\* Faulty variant of _linear_interp: the weights of the two colours are
\* exchanged.
linear_interp_swapped(color_inf, color_sup, distance_inf, distance_sup, distance_cm) ==
    [ c \in 1..3 |-> InterpChannel(color_sup[c], color_inf[c],
                                   distance_inf, distance_sup, distance_cm) ]

linear_interp(color_inf, color_sup, distance_inf, distance_sup, distance_cm) ==
    [ c \in 1..3 |-> InterpChannel(color_inf[c], color_sup[c],
                                   distance_inf, distance_sup, distance_cm) ]

compute_display_levels(distance_cm) ==
    IF distance_cm >= HIGH_DANGER_MIN_CM /\ distance_cm <= DANGER_MIN_CM
        THEN COLOR_RED
    ELSE IF distance_cm > DANGER_MIN_CM /\ distance_cm <= WARNING_MIN_CM
        THEN linear_interp(COLOR_RED, COLOR_YELLOW, DANGER_MIN_CM, WARNING_MIN_CM, distance_cm)
    ELSE IF distance_cm > WARNING_MIN_CM /\ distance_cm <= NO_PROBLEM_MIN_CM
        THEN linear_interp(COLOR_YELLOW, COLOR_GREEN, WARNING_MIN_CM, NO_PROBLEM_MIN_CM, distance_cm)
    ELSE IF distance_cm > NO_PROBLEM_MIN_CM /\ distance_cm <= INFO_MIN_CM
        THEN linear_interp(COLOR_GREEN, COLOR_TURQUOISE, NO_PROBLEM_MIN_CM, INFO_MIN_CM, distance_cm)
    ELSE IF distance_cm > INFO_MIN_CM /\ distance_cm <= OK_MIN_CM
        THEN linear_interp(COLOR_TURQUOISE, COLOR_BLUE, INFO_MIN_CM, OK_MIN_CM, distance_cm)
    ELSE IF distance_cm > OK_MIN_CM /\ distance_cm <= OK_MAX_CM
        THEN linear_interp(COLOR_BLUE, COLOR_OFF, OK_MIN_CM, OK_MAX_CM, distance_cm)
    ELSE COLOR_OFF

\* port_display_set_rgb(): the colour the LED shows from now on
port_display_set_rgb(d, color) == [d EXCEPT !.rgb = color]

display_do_set_on(d) == port_display_set_rgb(d, COLOR_OFF)

\* Faulty variant of do_set_color: the colour stays pending.
do_set_color_keeps_pending(d) ==
    [port_display_set_rgb(d, compute_display_levels(d.distance_cm))
        EXCEPT !.idle = TRUE]

do_set_color(d) ==
    [port_display_set_rgb(d, compute_display_levels(d.distance_cm))
        EXCEPT !.new_color = FALSE, !.idle = TRUE]

\* Faulty variant of do_set_off: the colour is left as it is.
display_do_set_off_keeps_colour(d) == [d EXCEPT !.idle = FALSE]

display_do_set_off(d) ==
    [port_display_set_rgb(d, COLOR_OFF) EXCEPT !.idle = FALSE]

fsm_trans_display(d) ==
    << [src |-> "WAIT_DISPLAY", guard |-> d.status,
        dst |-> "SET_DISPLAY", action |-> "do_set_on"],
       [src |-> "SET_DISPLAY", guard |-> d.new_color,
        dst |-> "SET_DISPLAY", action |-> "do_set_color"],
       [src |-> "SET_DISPLAY", guard |-> ~d.status,
        dst |-> "WAIT_DISPLAY", action |-> "do_set_off"] >>

fsm_display_init ==
    [state |-> "WAIT_DISPLAY", distance_cm |-> -1, new_color |-> FALSE,
     status |-> FALSE, idle |-> FALSE, rgb |-> COLOR_OFF]

fsm_display_set_distance(d, distance_cm) ==
    [d EXCEPT !.distance_cm = distance_cm, !.new_color = TRUE]

\* Faulty variant of fsm_display_set_status: a status once set is never cleared.
fsm_display_set_status_sticky(d, status) == [d EXCEPT !.status = @ \/ status]

fsm_display_set_status(d, status) == [d EXCEPT !.status = status]

fsm_display_check_activity(d) == d.status /\ ~d.idle

DisplayAfterFire(d) ==
    LET table == fsm_trans_display(d)
        i     == fsm_fire(d.state, table)
    IN  IF i = 0 THEN d
        ELSE LET row == table[i]
                 n   == IF row.action = "do_set_on" THEN display_do_set_on(d)
                        ELSE IF row.action = "do_set_color" THEN do_set_color(d)
                        ELSE display_do_set_off(d)
             IN  [n EXCEPT !.state = row.dst]

(***************************************************************************)
(* Buzzer (fsm_buzzer.c, port_buzzer.h, stm32f4_buzzer.c)                  *)
(***************************************************************************)
\* Faulty variant of _compute_buzzer_levels: the level grows with the distance.
compute_buzzer_levels_rising(distance_cm) ==
    IF distance_cm >= HIGH_DANGER_MIN_CM /\ distance_cm <= OK_MAX_CM
        THEN ((PORT_BUZZER_MAX_VALUE * distance_cm) \div OK_MAX_CM) % 256
        ELSE PORT_BUZZER_MIN_VALUE

\* _compute_buzzer_levels(): the result is a uint8_t
compute_buzzer_levels(distance_cm) ==
    IF distance_cm >= HIGH_DANGER_MIN_CM /\ distance_cm <= OK_MAX_CM
        THEN ((PORT_BUZZER_MAX_VALUE * (OK_MAX_CM - distance_cm)) \div OK_MAX_CM) % 256
        ELSE PORT_BUZZER_MIN_VALUE

port_buzzer_set_sound(z, sound) == [z EXCEPT !.sound = sound]

buzzer_do_set_on(z) == port_buzzer_set_sound(z, PORT_BUZZER_MIN_VALUE)

do_set_sound(z) ==
    [port_buzzer_set_sound(z, compute_buzzer_levels(z.distance_cm))
        EXCEPT !.new_sound = FALSE, !.idle = TRUE]

buzzer_do_set_off(z) ==
    [port_buzzer_set_sound(z, PORT_BUZZER_MIN_VALUE) EXCEPT !.idle = FALSE]

fsm_trans_buzzer(z) ==
    << [src |-> "WAIT_BUZZER", guard |-> z.status,
        dst |-> "SET_BUZZER", action |-> "do_set_on"],
       [src |-> "SET_BUZZER", guard |-> z.new_sound,
        dst |-> "SET_BUZZER", action |-> "do_set_sound"],
       [src |-> "SET_BUZZER", guard |-> ~z.status,
        dst |-> "WAIT_BUZZER", action |-> "do_set_off"] >>

fsm_buzzer_init ==
    [state |-> "WAIT_BUZZER", distance_cm |-> -1, new_sound |-> FALSE,
     status |-> FALSE, idle |-> FALSE, sound |-> PORT_BUZZER_MIN_VALUE]

fsm_buzzer_set_distance(z, distance_cm) ==
    [z EXCEPT !.distance_cm = distance_cm, !.new_sound = TRUE]

fsm_buzzer_set_status(z, status) == [z EXCEPT !.status = status]

fsm_buzzer_check_activity(z) == z.status /\ ~z.idle

BuzzerAfterFire(z) ==
    LET table == fsm_trans_buzzer(z)
        i     == fsm_fire(z.state, table)
    IN  IF i = 0 THEN z
        ELSE LET row == table[i]
                 n   == IF row.action = "do_set_on" THEN buzzer_do_set_on(z)
                        ELSE IF row.action = "do_set_sound" THEN do_set_sound(z)
                        ELSE buzzer_do_set_off(z)
             IN  [n EXCEPT !.state = row.dst]

(***************************************************************************)
(* Ultrasound port (stm32f4_ultrasound.c).  A sensor context x holds the    *)
(* FSM struct (x.u), the port struct with the sensor's trigger and          *)
(* new-measurement timers (x.h), the shared echo timer (x.tim2) and the     *)
(* sensor's echo pin (x.line).                                              *)
(***************************************************************************)
port_ultrasound_init ==
    [trigger_ready |-> TRUE, trigger_end |-> FALSE, echo_received |-> FALSE,
     echo_init_tick |-> 0, echo_end_tick |-> 0, echo_overflows |-> 0,
     trigger_pin |-> FALSE, trigger_timer |-> FALSE, measurement_timer |-> FALSE]

\* Lowers the trigger pin and halts TIM13/TIM14.  A pulse that ends makes the
\* idle transceiver answer with an echo pulse.
port_ultrasound_stop_trigger_timer(x) ==
    [x EXCEPT !.h.trigger_pin = FALSE,
              !.h.trigger_timer = FALSE,
              !.line = IF x.h.trigger_pin /\ x.line = "idle" THEN "rise" ELSE x.line]

port_ultrasound_stop_echo_timer(x) == [x EXCEPT !.tim2 = FALSE]

port_ultrasound_reset_echo_ticks(x) ==
    [x EXCEPT !.h.echo_init_tick = 0, !.h.echo_end_tick = 0,
              !.h.echo_overflows = 0, !.h.echo_received = FALSE]

port_ultrasound_start_measurement(x) ==
    [x EXCEPT !.h.trigger_ready = FALSE,
              !.h.trigger_pin = TRUE,
              !.h.trigger_timer = TRUE,
              !.h.measurement_timer = TRUE,
              !.tim2 = TRUE]

port_ultrasound_start_new_measurement_timer(x) ==
    [x EXCEPT !.h.measurement_timer = TRUE]

port_ultrasound_stop_new_measurement_timer(x) ==
    [x EXCEPT !.h.measurement_timer = FALSE]

\* Faulty variant of port_ultrasound_stop_ultrasound: the echo ticks are kept.
port_ultrasound_stop_ultrasound_keeps_ticks(x) ==
    port_ultrasound_stop_new_measurement_timer(
        port_ultrasound_stop_echo_timer(
            port_ultrasound_stop_trigger_timer(x)))

port_ultrasound_stop_ultrasound(x) ==
    port_ultrasound_reset_echo_ticks(
        port_ultrasound_stop_new_measurement_timer(
            port_ultrasound_stop_echo_timer(
                port_ultrasound_stop_trigger_timer(x))))

(***************************************************************************)
(* Ultrasound FSM (fsm_ultrasound.c)                                       *)
(***************************************************************************)
\* Faulty variant of check_on: a disabled sensor starts as well.
us_check_on_ignores_status(x) == x.h.trigger_ready

us_check_on(x) == x.h.trigger_ready /\ x.u.status

us_check_off(x) == ~x.u.status

check_trigger_end(x) == x.h.trigger_end

\* Faulty variant of check_echo_init: the wait for the rising edge is not
\* held.
check_echo_init_always(x) == x.h.echo_init_tick >= 0

check_echo_init(x) == x.h.echo_init_tick > 0

check_echo_received(x) == x.h.echo_received

check_new_measurement(x) == x.h.trigger_ready

do_start_measurement(x) == port_ultrasound_start_measurement(x)

do_stop_trigger(x) ==
    [port_ultrasound_stop_trigger_timer(x) EXCEPT !.h.trigger_end = FALSE]

\* Faulty variant of do_set_distance: the middle slot of the window is taken
\* without sorting it.
do_set_distance_unsorted(x) ==
    LET distance == EchoDistance(x.h.echo_overflows, x.h.echo_init_tick,
                                 x.h.echo_end_tick)
        idx      == x.u.distance_idx
        arr      == [x.u.distance_arr EXCEPT ![idx + 1] = distance]
        full     == idx >= FSM_ULTRASOUND_NUM_MEASUREMENTS - 1
        u1       == IF full
                    THEN [x.u EXCEPT
                            !.distance_arr = arr,
                            !.distance_cm =
                                arr[FSM_ULTRASOUND_NUM_MEASUREMENTS \div 2 + 1],
                            !.new_measurement = TRUE]
                    ELSE [x.u EXCEPT !.distance_arr = arr]
        u2       == [u1 EXCEPT !.distance_idx =
                        IF idx + 1 >= FSM_ULTRASOUND_NUM_MEASUREMENTS
                        THEN 0 ELSE idx + 1]
    IN  port_ultrasound_reset_echo_ticks(
            port_ultrasound_stop_echo_timer([x EXCEPT !.u = u2]))

do_set_distance(x) ==
    LET distance == EchoDistance(x.h.echo_overflows, x.h.echo_init_tick,
                                 x.h.echo_end_tick)
        idx      == x.u.distance_idx
        arr      == [x.u.distance_arr EXCEPT ![idx + 1] = distance]
        full     == idx >= FSM_ULTRASOUND_NUM_MEASUREMENTS - 1
        sorted   == SortWindow(arr)
        u1       == IF full
                    THEN [x.u EXCEPT
                            !.distance_arr = sorted,
                            !.distance_cm =
                                sorted[FSM_ULTRASOUND_NUM_MEASUREMENTS \div 2 + 1],
                            !.new_measurement = TRUE]
                    ELSE [x.u EXCEPT !.distance_arr = arr]
        u2       == [u1 EXCEPT !.distance_idx =
                        IF idx + 1 >= FSM_ULTRASOUND_NUM_MEASUREMENTS
                        THEN 0 ELSE idx + 1]
    IN  port_ultrasound_reset_echo_ticks(
            port_ultrasound_stop_echo_timer([x EXCEPT !.u = u2]))

do_stop_measurement(x) == port_ultrasound_stop_ultrasound(x)

do_start_new_measurement(x) == do_start_measurement(x)

\* Faulty variant of fsm_trans_ultrasound: in SET_DISTANCE the row of the
\* disabled sensor comes before the row of trigger-ready.
fsm_trans_ultrasound_off_first(x) ==
    << [src |-> "WAIT_START", guard |-> us_check_on(x),
        dst |-> "TRIGGER_START", action |-> "do_start_measurement"],
       [src |-> "TRIGGER_START", guard |-> check_trigger_end(x),
        dst |-> "WAIT_ECHO_START", action |-> "do_stop_trigger"],
       [src |-> "WAIT_ECHO_START", guard |-> check_echo_init(x),
        dst |-> "WAIT_ECHO_END", action |-> "NULL"],
       [src |-> "WAIT_ECHO_END", guard |-> check_echo_received(x),
        dst |-> "SET_DISTANCE", action |-> "do_set_distance"],
       [src |-> "SET_DISTANCE", guard |-> us_check_off(x),
        dst |-> "WAIT_START", action |-> "do_stop_measurement"],
       [src |-> "SET_DISTANCE", guard |-> check_new_measurement(x),
        dst |-> "TRIGGER_START", action |-> "do_start_new_measurement"] >>

fsm_trans_ultrasound(x) ==
    << [src |-> "WAIT_START", guard |-> us_check_on(x),
        dst |-> "TRIGGER_START", action |-> "do_start_measurement"],
       [src |-> "TRIGGER_START", guard |-> check_trigger_end(x),
        dst |-> "WAIT_ECHO_START", action |-> "do_stop_trigger"],
       [src |-> "WAIT_ECHO_START", guard |-> check_echo_init(x),
        dst |-> "WAIT_ECHO_END", action |-> "NULL"],
       [src |-> "WAIT_ECHO_END", guard |-> check_echo_received(x),
        dst |-> "SET_DISTANCE", action |-> "do_set_distance"],
       [src |-> "SET_DISTANCE", guard |-> check_new_measurement(x),
        dst |-> "TRIGGER_START", action |-> "do_start_new_measurement"],
       [src |-> "SET_DISTANCE", guard |-> us_check_off(x),
        dst |-> "WAIT_START", action |-> "do_stop_measurement"] >>

fsm_ultrasound_init ==
    [state |-> "WAIT_START", distance_cm |-> 0, distance_idx |-> 0,
     distance_arr |-> [i \in 1..FSM_ULTRASOUND_NUM_MEASUREMENTS |-> 0],
     new_measurement |-> FALSE, status |-> FALSE]

\* Faulty variant of fsm_ultrasound_get_distance: the read also restarts the
\* window.
fsm_ultrasound_get_distance_restarts(x) ==
    [x EXCEPT !.u.new_measurement = FALSE, !.u.distance_idx = 0,
              !.u.distance_arr = [i \in 1..FSM_ULTRASOUND_NUM_MEASUREMENTS |-> 0]]

\* fsm_ultrasound_get_distance(): the value returned is x.u.distance_cm
fsm_ultrasound_get_distance(x) == [x EXCEPT !.u.new_measurement = FALSE]

fsm_ultrasound_stop(x) ==
    port_ultrasound_stop_ultrasound([x EXCEPT !.u.status = FALSE])

\* Faulty variant of fsm_ultrasound_start: the write index is kept.
fsm_ultrasound_start_keeps_index(x) ==
    port_ultrasound_start_new_measurement_timer(
        [port_ultrasound_reset_echo_ticks(
            [x EXCEPT !.u.status = TRUE,
                      !.u.distance_cm = 0])
         EXCEPT !.h.trigger_ready = TRUE])

fsm_ultrasound_start(x) ==
    port_ultrasound_start_new_measurement_timer(
        [port_ultrasound_reset_echo_ticks(
            [x EXCEPT !.u.status = TRUE,
                      !.u.distance_idx = 0,
                      !.u.distance_cm = 0])
         EXCEPT !.h.trigger_ready = TRUE])

fsm_ultrasound_get_new_measurement_ready(u) == u.new_measurement

fsm_ultrasound_check_activity(u) == FALSE

UltrasoundAfterFire(x) ==
    LET table == fsm_trans_ultrasound(x)
        i     == fsm_fire(x.u.state, table)
    IN  IF i = 0 THEN x
        ELSE LET row == table[i]
                 n   == CASE row.action = "do_start_measurement" -> do_start_measurement(x)
                          [] row.action = "do_stop_trigger" -> do_stop_trigger(x)
                          [] row.action = "do_set_distance" -> do_set_distance(x)
                          [] row.action = "do_start_new_measurement" -> do_start_new_measurement(x)
                          [] row.action = "do_stop_measurement" -> do_stop_measurement(x)
                          [] OTHER -> x
             IN  [n EXCEPT !.u.state = row.dst]

(***************************************************************************)
(* Orchestrator (fsm_urbanite.c).  Its guards and actions read and write   *)
(* the other machines through their interface functions: a world w holds   *)
(* everything one orchestrator fire can touch.                             *)
(***************************************************************************)
World ==
    [button |-> button, us |-> us, hw |-> hw, tim2 |-> tim2_on,
     line |-> echo_line, display |-> display, buzzer |-> buzzer,
     urb |-> urbanite, log |-> log]

Ctx(w, s) == [u |-> w.us[s], h |-> w.hw[s], tim2 |-> w.tim2, line |-> w.line[s]]

Put(w, s, x) ==
    [w EXCEPT !.us[s] = x.u, !.hw[s] = x.h, !.tim2 = x.tim2, !.line[s] = x.line]

\* Faulty variant of check_on: any completed press turns the system on.
urb_check_on_any_press(w) == fsm_button_get_duration(w.button) > 0

urb_check_on(w) ==
    LET duration == fsm_button_get_duration(w.button)
    IN  duration > 0 /\ duration >= w.urb.on_off_press_time_ms

urb_check_off(w) == urb_check_on(w)

\* Faulty variant of check_new_measure: the sensor that is not live is asked.
check_new_measure_other(w) ==
    IF w.urb.is_rear
    THEN fsm_ultrasound_get_new_measurement_ready(w.us["front"])
    ELSE fsm_ultrasound_get_new_measurement_ready(w.us["rear"])

check_new_measure(w) ==
    IF w.urb.is_rear
    THEN fsm_ultrasound_get_new_measurement_ready(w.us["rear"])
    ELSE fsm_ultrasound_get_new_measurement_ready(w.us["front"])

\* Faulty variant of check_pause: the pause threshold itself is excluded.
check_pause_strict(w) ==
    LET duration == fsm_button_get_duration(w.button)
    IN  /\ duration > 0
        /\ duration < w.urb.change_press_time_ms
        /\ duration > w.urb.pause_display_time_ms

check_pause(w) ==
    LET duration == fsm_button_get_duration(w.button)
    IN  /\ duration > 0
        /\ duration < w.urb.change_press_time_ms
        /\ duration >= w.urb.pause_display_time_ms

check_activity(w) ==
    \/ fsm_button_check_activity(w.button)
    \/ fsm_ultrasound_check_activity(w.us["front"])
    \/ fsm_display_check_activity(w.display["front"])
    \/ fsm_ultrasound_check_activity(w.us["rear"])
    \/ fsm_display_check_activity(w.display["rear"])
    \/ fsm_buzzer_check_activity(w.buzzer)

check_no_activity(w) == FALSE

check_activity_in_measure(w) == check_new_measure(w)

\* Faulty variant of check_front: the change threshold itself is excluded.
check_front_strict(w) ==
    LET duration == fsm_button_get_duration(w.button)
    IN  /\ duration > 0
        /\ duration > w.urb.change_press_time_ms
        /\ duration < w.urb.on_off_press_time_ms

check_front(w) ==
    LET duration == fsm_button_get_duration(w.button)
    IN  /\ duration > 0
        /\ duration >= w.urb.change_press_time_ms
        /\ duration < w.urb.on_off_press_time_ms

\* Faulty variant of check_rear: the change threshold itself is excluded.
check_rear_strict(w) ==
    LET duration == fsm_button_get_duration(w.button)
    IN  /\ duration > 0
        /\ duration > w.urb.change_press_time_ms
        /\ duration < w.urb.on_off_press_time_ms

check_rear(w) == check_front(w)

\* Faulty variant of do_start_up_measure: the press is not consumed.
do_start_up_measure_keeps_press(w) ==
    LET w2 == Put(w, "front", fsm_ultrasound_start(Ctx(w, "front")))
    IN  [w2 EXCEPT !.display["front"] = fsm_display_set_status(@, FALSE),
                   !.buzzer = fsm_buzzer_set_status(@, FALSE),
                   !.log = "ON"]

do_start_up_measure(w) ==
    LET w1 == [w EXCEPT !.button = fsm_button_reset_duration(@)]
        w2 == Put(w1, "front", fsm_ultrasound_start(Ctx(w1, "front")))
    IN  [w2 EXCEPT !.display["front"] = fsm_display_set_status(@, FALSE),
                   !.buzzer = fsm_buzzer_set_status(@, FALSE),
                   !.log = "ON"]

\* Faulty variant of do_distance: the danger override uses the whole warning
\* threshold instead of half of it.
do_distance_whole_threshold(w) ==
    LET live     == IF w.urb.is_rear THEN "rear" ELSE "front"
        other    == IF w.urb.is_rear THEN "front" ELSE "rear"
        w1       == [w EXCEPT !.display[other] = fsm_display_set_status(@, FALSE)]
        distance == w1.us[live].distance_cm
        w2       == Put(w1, live, fsm_ultrasound_get_distance(Ctx(w1, live)))
        shown    == [w2 EXCEPT
                        !.display[live] = fsm_display_set_status(
                            fsm_display_set_distance(@, distance), TRUE),
                        !.buzzer = fsm_buzzer_set_status(
                            fsm_buzzer_set_distance(@, distance), TRUE)]
        hidden   == [w2 EXCEPT
                        !.display[live] = fsm_display_set_status(@, FALSE),
                        !.buzzer = fsm_buzzer_set_status(@, FALSE)]
        w3       == IF w.urb.is_paused
                    THEN IF distance < WARNING_MIN_CM THEN shown ELSE hidden
                    ELSE shown
    IN  [w3 EXCEPT !.log = IF w.urb.is_rear THEN "DISTANCE_REAR" ELSE "DISTANCE_FRONT"]

\* The two branches of do_distance differ only in the pair they address.
do_distance(w) ==
    LET live     == IF w.urb.is_rear THEN "rear" ELSE "front"
        other    == IF w.urb.is_rear THEN "front" ELSE "rear"
        w1       == [w EXCEPT !.display[other] = fsm_display_set_status(@, FALSE)]
        distance == w1.us[live].distance_cm
        w2       == Put(w1, live, fsm_ultrasound_get_distance(Ctx(w1, live)))
        shown    == [w2 EXCEPT
                        !.display[live] = fsm_display_set_status(
                            fsm_display_set_distance(@, distance), TRUE),
                        !.buzzer = fsm_buzzer_set_status(
                            fsm_buzzer_set_distance(@, distance), TRUE)]
        hidden   == [w2 EXCEPT
                        !.display[live] = fsm_display_set_status(@, FALSE),
                        !.buzzer = fsm_buzzer_set_status(@, FALSE)]
        w3       == IF w.urb.is_paused
                    THEN IF distance < WARNING_MIN_CM \div 2 THEN shown ELSE hidden
                    ELSE shown
    IN  [w3 EXCEPT !.log = IF w.urb.is_rear THEN "DISTANCE_REAR" ELSE "DISTANCE_FRONT"]

\* Faulty variant of do_pause: the press is not consumed.
do_pause_keeps_press(w) ==
    LET paused == ~w.urb.is_paused
        live   == IF w.urb.is_rear THEN "rear" ELSE "front"
    IN  [w EXCEPT !.urb.is_paused = paused,
                  !.display[live] = fsm_display_set_status(@, paused),
                  !.buzzer = fsm_buzzer_set_status(@, paused),
                  !.log = IF paused THEN "PAUSE" ELSE "RESUME"]

do_pause(w) ==
    LET w1     == [w EXCEPT !.button = fsm_button_reset_duration(@)]
        paused == ~w1.urb.is_paused
        live   == IF w1.urb.is_rear THEN "rear" ELSE "front"
    IN  [w1 EXCEPT !.urb.is_paused = paused,
                   !.display[live] = fsm_display_set_status(@, paused),
                   !.buzzer = fsm_buzzer_set_status(@, paused),
                   !.log = IF paused THEN "PAUSE" ELSE "RESUME"]

\* Faulty variant of do_stop_urbanite: the front sensor is left running.
do_stop_urbanite_skips_front(w) ==
    LET w1 == [w EXCEPT !.button = fsm_button_reset_duration(@)]
        w3 == [w1 EXCEPT !.display["front"] = fsm_display_set_status(@, FALSE)]
        w4 == Put(w3, "rear", fsm_ultrasound_stop(Ctx(w3, "rear")))
    IN  [w4 EXCEPT !.display["rear"] = fsm_display_set_status(@, FALSE),
                   !.buzzer = fsm_buzzer_set_status(@, FALSE),
                   !.urb.is_paused = FALSE,
                   !.log = "OFF"]

do_stop_urbanite(w) ==
    LET w1 == [w EXCEPT !.button = fsm_button_reset_duration(@)]
        w2 == Put(w1, "front", fsm_ultrasound_stop(Ctx(w1, "front")))
        w3 == [w2 EXCEPT !.display["front"] = fsm_display_set_status(@, FALSE)]
        w4 == Put(w3, "rear", fsm_ultrasound_stop(Ctx(w3, "rear")))
    IN  [w4 EXCEPT !.display["rear"] = fsm_display_set_status(@, FALSE),
                   !.buzzer = fsm_buzzer_set_status(@, FALSE),
                   !.urb.is_paused = FALSE,
                   !.log = "OFF"]

\* port_system_sleep() suspends the loop until the next interrupt and changes
\* none of the machines.
do_sleep(w) == w

\* Faulty variant of do_change_rear: the front sensor is left running.
do_change_rear_keeps_front(w) ==
    LET w1 == [w EXCEPT !.button = fsm_button_reset_duration(@)]
        w3 == [w1 EXCEPT !.display["front"] = fsm_display_set_status(@, FALSE),
                         !.urb.is_rear = TRUE]
        w4 == Put(w3, "rear", fsm_ultrasound_start(Ctx(w3, "rear")))
    IN  [w4 EXCEPT !.display["rear"] = fsm_display_set_status(@, FALSE),
                   !.log = "REAR"]

do_change_rear(w) ==
    LET w1 == [w EXCEPT !.button = fsm_button_reset_duration(@)]
        w2 == Put(w1, "front", fsm_ultrasound_stop(Ctx(w1, "front")))
        w3 == [w2 EXCEPT !.display["front"] = fsm_display_set_status(@, FALSE),
                         !.urb.is_rear = TRUE]
        w4 == Put(w3, "rear", fsm_ultrasound_start(Ctx(w3, "rear")))
    IN  [w4 EXCEPT !.display["rear"] = fsm_display_set_status(@, FALSE),
                   !.log = "REAR"]

\* Faulty variant of do_change_front: the rear sensor is left running.
do_change_front_keeps_rear(w) ==
    LET w1 == [w EXCEPT !.button = fsm_button_reset_duration(@)]
        w3 == [w1 EXCEPT !.display["rear"] = fsm_display_set_status(@, FALSE),
                         !.urb.is_rear = FALSE]
        w4 == Put(w3, "front", fsm_ultrasound_start(Ctx(w3, "front")))
    IN  [w4 EXCEPT !.display["front"] = fsm_display_set_status(@, FALSE),
                   !.log = "FRONT"]

do_change_front(w) ==
    LET w1 == [w EXCEPT !.button = fsm_button_reset_duration(@)]
        w2 == Put(w1, "rear", fsm_ultrasound_stop(Ctx(w1, "rear")))
        w3 == [w2 EXCEPT !.display["rear"] = fsm_display_set_status(@, FALSE),
                         !.urb.is_rear = FALSE]
        w4 == Put(w3, "front", fsm_ultrasound_start(Ctx(w3, "front")))
    IN  [w4 EXCEPT !.display["front"] = fsm_display_set_status(@, FALSE),
                   !.log = "FRONT"]

fsm_trans_urbanite(w) ==
    << [src |-> "OFF", guard |-> urb_check_on(w),
        dst |-> "MEASURE_FRONT", action |-> "do_start_up_measure"],
       [src |-> "OFF", guard |-> check_no_activity(w),
        dst |-> "SLEEP_WHILE_OFF", action |-> "do_sleep_off"],
       [src |-> "MEASURE_FRONT", guard |-> urb_check_off(w),
        dst |-> "OFF", action |-> "do_stop_urbanite"],
       [src |-> "MEASURE_FRONT", guard |-> check_pause(w),
        dst |-> "MEASURE_FRONT", action |-> "do_pause"],
       [src |-> "MEASURE_FRONT", guard |-> check_new_measure(w),
        dst |-> "MEASURE_FRONT", action |-> "do_distance"],
       [src |-> "MEASURE_FRONT", guard |-> check_rear(w),
        dst |-> "MEASURE_REAR", action |-> "do_change_rear"],
       [src |-> "MEASURE_FRONT", guard |-> check_no_activity(w),
        dst |-> "SLEEP_WHILE_ON_FRONT", action |-> "do_sleep_while_measure"],
       [src |-> "MEASURE_REAR", guard |-> urb_check_off(w),
        dst |-> "OFF", action |-> "do_stop_urbanite"],
       [src |-> "MEASURE_REAR", guard |-> check_pause(w),
        dst |-> "MEASURE_REAR", action |-> "do_pause"],
       [src |-> "MEASURE_REAR", guard |-> check_new_measure(w),
        dst |-> "MEASURE_REAR", action |-> "do_distance"],
       [src |-> "MEASURE_REAR", guard |-> check_front(w),
        dst |-> "MEASURE_FRONT", action |-> "do_change_front"],
       [src |-> "MEASURE_REAR", guard |-> check_no_activity(w),
        dst |-> "SLEEP_WHILE_ON_REAR", action |-> "do_sleep_while_measure"],
       [src |-> "SLEEP_WHILE_ON_FRONT", guard |-> check_activity_in_measure(w),
        dst |-> "MEASURE_FRONT", action |-> "NULL"],
       [src |-> "SLEEP_WHILE_ON_FRONT", guard |-> check_no_activity(w),
        dst |-> "SLEEP_WHILE_ON_FRONT", action |-> "do_sleep_while_on"],
       [src |-> "SLEEP_WHILE_ON_REAR", guard |-> check_activity_in_measure(w),
        dst |-> "MEASURE_REAR", action |-> "NULL"],
       [src |-> "SLEEP_WHILE_ON_REAR", guard |-> check_no_activity(w),
        dst |-> "SLEEP_WHILE_ON_REAR", action |-> "do_sleep_while_on"],
       [src |-> "SLEEP_WHILE_OFF", guard |-> check_activity(w),
        dst |-> "OFF", action |-> "NULL"],
       [src |-> "SLEEP_WHILE_OFF", guard |-> check_no_activity(w),
        dst |-> "SLEEP_WHILE_OFF", action |-> "do_sleep_while_off"] >>

fsm_urbanite_init(on_off_press_time_ms, change_press_time_ms, pause_display_time_ms) ==
    [state |-> "OFF",
     on_off_press_time_ms |-> on_off_press_time_ms,
     change_press_time_ms |-> change_press_time_ms,
     pause_display_time_ms |-> pause_display_time_ms,
     is_paused |-> FALSE, is_rear |-> FALSE]

\* The row fsm_urbanite_fire() takes in world w (0: none)
UrbaniteRow(w) == fsm_fire(w.urb.state, fsm_trans_urbanite(w))

UrbaniteAfterFire(w) ==
    LET table == fsm_trans_urbanite(w)
        i     == UrbaniteRow(w)
    IN  IF i = 0 THEN w
        ELSE LET row == table[i]
                 n   == CASE row.action = "do_start_up_measure" -> do_start_up_measure(w)
                          [] row.action = "do_stop_urbanite" -> do_stop_urbanite(w)
                          [] row.action = "do_pause" -> do_pause(w)
                          [] row.action = "do_distance" -> do_distance(w)
                          [] row.action = "do_change_rear" -> do_change_rear(w)
                          [] row.action = "do_change_front" -> do_change_front(w)
                          [] OTHER -> do_sleep(w)
             IN  [n EXCEPT !.urb.state = row.dst]

(***************************************************************************)
(* The program: main() builds the machines, then fires them in a fixed     *)
(* order for ever; the interrupt service routines run between two fires.   *)
(***************************************************************************)
\* What main() builds before the loop, with the parameters of cfg
Built(cfg) ==
    [button  |-> fsm_button_init(cfg.debounce),
     us      |-> [s \in Sensors |-> fsm_ultrasound_init],
     hw      |-> [s \in Sensors |-> port_ultrasound_init],
     tim2    |-> FALSE,
     line    |-> [s \in Sensors |-> "idle"],
     display |-> [s \in Sensors |-> fsm_display_init],
     buzzer  |-> fsm_buzzer_init,
     urb     |-> fsm_urbanite_init(cfg.on_off, cfg.change, cfg.pause),
     log     |-> "none"]

\* The program is in world w, about to run fire number at of the loop body,
\* the sensors having recorded the samples b since their last start() or full
\* window.
Resume(w, at, b) ==
    /\ millis = 0
    /\ pc = at
    /\ flag_pressed = FALSE
    /\ button = w.button
    /\ us = w.us
    /\ hw = w.hw
    /\ tim2_on = w.tim2
    /\ echo_line = w.line
    /\ display = w.display
    /\ buzzer = w.buzzer
    /\ urbanite = w.urb
    /\ log = w.log
    /\ pulse_ms = 0
    /\ off_iterations = 0
    /\ batch = b

StartIn(w, at) == Resume(w, at, [s \in Sensors |-> << >>])

\* main() up to the loop, with the parameters of cfg
Construct(cfg) == StartIn(Built(cfg), 0)

Init == Construct(ShortConfig)

\* The fire of the sensor of context x records a sample: the row
\* WAIT_ECHO_END --check_echo_received--> SET_DISTANCE runs do_set_distance.
Records(x) == x.u.state = "WAIT_ECHO_END" /\ check_echo_received(x)

\* The sample do_set_distance computes in context x
Sample(x) == EchoDistance(x.h.echo_overflows, x.h.echo_init_tick, x.h.echo_end_tick)

\* The sensors on which the orchestrator's fire in world w calls
\* fsm_ultrasound_start()
StartedBy(w) ==
    LET i == UrbaniteRow(w)
        a == IF i = 0 THEN "none" ELSE fsm_trans_urbanite(w)[i].action
    IN  CASE a \in {"do_start_up_measure", "do_change_front"} -> {"front"}
          [] a = "do_change_rear" -> {"rear"}
          [] OTHER -> {}

fsm_button_fire ==
    /\ pc = 0
    /\ button' = ButtonAfterFire
    /\ pc' = 1
    /\ UNCHANGED << millis, flag_pressed, us, hw, tim2_on, echo_line, display,
                    buzzer, urbanite, log, pulse_ms, off_iterations, batch >>

fsm_ultrasound_fire(s, at) ==
    /\ pc = at
    /\ LET x == UltrasoundAfterFire(Ctx(World, s))
       IN  /\ us' = [us EXCEPT ![s] = x.u]
           /\ hw' = [hw EXCEPT ![s] = x.h]
           /\ tim2_on' = x.tim2
           /\ echo_line' = [echo_line EXCEPT ![s] = x.line]
    /\ batch' = [batch EXCEPT ![s] =
                    IF ~Records(Ctx(World, s)) THEN @
                    ELSE IF Len(@) + 1 >= FSM_ULTRASOUND_NUM_MEASUREMENTS THEN << >>
                    ELSE Append(@, Sample(Ctx(World, s)))]
    /\ pc' = at + 1
    /\ UNCHANGED << millis, flag_pressed, button, display, buzzer, urbanite, log,
                    pulse_ms, off_iterations >>

fsm_display_fire(s, at) ==
    /\ pc = at
    /\ display' = [display EXCEPT ![s] = DisplayAfterFire(display[s])]
    /\ pc' = at + 1
    /\ UNCHANGED << millis, flag_pressed, button, us, hw, tim2_on, echo_line,
                    buzzer, urbanite, log, pulse_ms, off_iterations, batch >>

fsm_buzzer_fire ==
    /\ pc = 5
    /\ buzzer' = BuzzerAfterFire(buzzer)
    /\ pc' = 6
    /\ UNCHANGED << millis, flag_pressed, button, us, hw, tim2_on, echo_line,
                    display, urbanite, log, pulse_ms, off_iterations, batch >>

fsm_urbanite_fire ==
    /\ pc = 6
    /\ LET w == UrbaniteAfterFire(World)
       IN  /\ button' = w.button
           /\ us' = w.us
           /\ hw' = w.hw
           /\ tim2_on' = w.tim2
           /\ echo_line' = w.line
           /\ display' = w.display
           /\ buzzer' = w.buzzer
           /\ urbanite' = w.urb
           /\ log' = w.log
           /\ off_iterations' =
                IF w.urb.state # "OFF" \/ urbanite.state # "OFF" THEN 0
                ELSE IF off_iterations < 2 THEN off_iterations + 1
                ELSE off_iterations
    /\ batch' = [s \in Sensors |->
                    IF s \in StartedBy(World) THEN << >> ELSE batch[s]]
    /\ pc' = 0
    /\ UNCHANGED << millis, flag_pressed, pulse_ms >>

\* The clock is read by the button fire alone, which opens the iteration, and
\* only while a press is being timed: ticks are taken there and then, up to
\* the bound of the run.
Tick(bound) ==
    /\ pc = 0
    /\ button.state # "BUTTON_RELEASED" \/ flag_pressed
    /\ millis < bound
    /\ millis' = millis + 1
    /\ pulse_ms' = IF flag_pressed /\ pulse_ms < button.debounce_time_ms
                   THEN pulse_ms + 1 ELSE pulse_ms
    /\ UNCHANGED << pc, flag_pressed, button, us, hw, tim2_on, echo_line,
                    display, buzzer, urbanite, log, off_iterations, batch >>

SysTick_Handler == Tick(MaxMillis)

\* An edge of the button pin: the handler copies the pin's level to the flag.
\* The flag is read by the button fire alone.
EXTI15_10_IRQHandler ==
    /\ pc = 0
    /\ flag_pressed' = ~flag_pressed
    /\ pulse_ms' = IF flag_pressed THEN pulse_ms ELSE 0
    /\ UNCHANGED << millis, pc, button, us, hw, tim2_on, echo_line, display,
                    buzzer, urbanite, log, off_iterations, batch >>

\* What a sensor's interrupts write is read by that sensor's fire and by the
\* orchestrator's: they are taken at the top of the iteration and between the
\* last of the other fires and the orchestrator's.
InterruptPoint == pc \in {0, 6}

\* TIM2 update event: one overflow more for both sensors.
TIM2_IRQHandler_UIF ==
    /\ InterruptPoint
    /\ tim2_on
    /\ \A s \in Sensors : hw[s].echo_overflows < MaxOverflows
    /\ hw' = [s \in Sensors |->
                [hw[s] EXCEPT !.echo_overflows = @ + 1]]
    /\ UNCHANGED << millis, pc, flag_pressed, button, us, tim2_on, echo_line,
                    display, buzzer, urbanite, log, pulse_ms, off_iterations, batch >>

\* TIM2 capture event on the channel of sensor s: an edge of its echo pin.
\* A running counter holds the time since the trigger; a halted one holds
\* the value it stopped at, after the last falling edge.
TIM2_CaptureAt(s, rises, falls) ==
    /\ InterruptPoint
    /\ echo_line[s] # "idle"
    /\ \E currentTicks \in
            (IF tim2_on /\ echo_line[s] = "rise" THEN rises ELSE falls) :
          LET init == hw[s].echo_init_tick
              end  == hw[s].echo_end_tick
          IN  hw' = [hw EXCEPT ![s] =
                        IF init = 0 /\ end = 0
                        THEN [@ EXCEPT !.echo_init_tick = currentTicks]
                        ELSE [@ EXCEPT !.echo_end_tick = currentTicks,
                                       !.echo_received = TRUE]]
    /\ echo_line' = [echo_line EXCEPT ![s] = IF @ = "rise" THEN "fall" ELSE "idle"]
    /\ UNCHANGED << millis, pc, flag_pressed, button, us, tim2_on, display,
                    buzzer, urbanite, log, pulse_ms, off_iterations, batch >>

TIM2_Capture(s, falls) == TIM2_CaptureAt(s, RiseTicks, falls)

TIM2_IRQHandler_CC(s) == TIM2_Capture(s, FallTicks)

\* TIM6 (front) / TIM10 (rear): the measurement period has elapsed.
TIM_NewMeasurement_IRQHandler(s) ==
    /\ InterruptPoint
    /\ hw[s].measurement_timer
    /\ hw' = [hw EXCEPT ![s].trigger_ready = TRUE]
    /\ UNCHANGED << millis, pc, flag_pressed, button, us, tim2_on, echo_line,
                    display, buzzer, urbanite, log, pulse_ms, off_iterations, batch >>

\* TIM14 (front) / TIM13 (rear): the trigger pulse has lasted long enough.
TIM_Trigger_IRQHandler(s) ==
    /\ InterruptPoint
    /\ hw[s].trigger_timer
    /\ hw' = [hw EXCEPT ![s].trigger_end = TRUE]
    /\ UNCHANGED << millis, pc, flag_pressed, button, us, tim2_on, echo_line,
                    display, buzzer, urbanite, log, pulse_ms, off_iterations, batch >>

FrontUltrasoundFire == fsm_ultrasound_fire("front", 1)
FrontDisplayFire == fsm_display_fire("front", 2)
RearUltrasoundFire == fsm_ultrasound_fire("rear", 3)
RearDisplayFire == fsm_display_fire("rear", 4)
EchoCapture == \E s \in Sensors : TIM2_IRQHandler_CC(s)
NewMeasurementTimer == \E s \in Sensors : TIM_NewMeasurement_IRQHandler(s)
TriggerTimer == \E s \in Sensors : TIM_Trigger_IRQHandler(s)

\* One pass of the loop body of main()
Loop ==
    \/ fsm_button_fire
    \/ FrontUltrasoundFire
    \/ FrontDisplayFire
    \/ RearUltrasoundFire
    \/ RearDisplayFire
    \/ fsm_buzzer_fire
    \/ fsm_urbanite_fire

(***************************************************************************)
(* Spec: the system built with ShortConfig, in front of obstacles whose    *)
(* echoes come back before the echo timer overflows.                       *)
(***************************************************************************)
Next ==
    \/ Loop
    \/ SysTick_Handler
    \/ EXTI15_10_IRQHandler
    \/ EchoCapture
    \/ NewMeasurementTimer
    \/ TriggerTimer

Spec == Init /\ [][Next]_vars

(***************************************************************************)
(* SpecLostEcho: the system built with TierConfig, with nothing in range:  *)
(* no echo edge ever comes, the echo timer runs on and overflows.  The run *)
(* is long enough for four presses.                                        *)
(***************************************************************************)
InitLostEcho == Construct(TierConfig)

SysTick_HandlerLong == Tick(MaxMillisLong)

NextLostEcho ==
    \/ Loop
    \/ SysTick_HandlerLong
    \/ EXTI15_10_IRQHandler
    \/ TIM2_IRQHandler_UIF
    \/ NewMeasurementTimer
    \/ TriggerTimer

SpecLostEcho == InitLostEcho /\ [][NextLostEcho]_vars

(***************************************************************************)
(* SpecButton: the system built with DebounceConfig; no press of the run   *)
(* is long enough to turn it on.                                           *)
(***************************************************************************)
InitButton == Construct(DebounceConfig)

NextButton ==
    \/ Loop
    \/ SysTick_Handler
    \/ EXTI15_10_IRQHandler

SpecButton == InitButton /\ [][NextButton]_vars

(***************************************************************************)
(* SpecTiers: what one orchestrator fire in a measuring state does, as a   *)
(* function of the three thresholds, the duration of the completed press   *)
(* and the measurement pending.  The orchestrator is taken at a fire in a  *)
(* measuring state, as the turn-on, swap and pause actions leave it, with  *)
(* thresholds pause <= change <= on_off, a duration drawn from             *)
(* 0 .. MaxThreshold + 1 (0: no completed press) and the live sensor       *)
(* either waiting for its first trigger or at the end of a full window of  *)
(* echoes.                                                                 *)
(***************************************************************************)
\* Echo lengths, in timer ticks, giving 10, 11, 12 and 20 cm
PendingTicks == {600, 643, 701, 1200}

\* The sensor of context x has sent a trigger pulse and captured an echo
\* whose falling edge came at tick t: TRIGGER_START to SET_DISTANCE.
OneEcho(x, t) ==
    LET sent     == do_stop_trigger(do_start_measurement(x))
        captured == [sent EXCEPT !.h.echo_init_tick = 1,
                                 !.h.echo_end_tick = t,
                                 !.h.echo_received = TRUE,
                                 !.line = "idle"]
    IN  [do_set_distance(captured) EXCEPT !.u.state = "SET_DISTANCE"]

RECURSIVE Echoes(_, _, _)
Echoes(x, t, n) == IF n = 0 THEN x ELSE Echoes(OneEcho(x, t), t, n - 1)

\* t = 0: no measurement pending
PressedWorld(cfg, d, rear, paused, t) ==
    LET w0   == Built(cfg)
        w1   == [do_start_up_measure(w0) EXCEPT !.urb.state = "MEASURE_FRONT"]
        w2   == IF rear
                THEN [do_change_rear(w1) EXCEPT !.urb.state = "MEASURE_REAR"]
                ELSE w1
        w3   == IF paused THEN do_pause(w2) ELSE w2
        live == IF rear THEN "rear" ELSE "front"
        w4   == IF t = 0 THEN w3
                ELSE Put(w3, live, Echoes(Ctx(w3, live), t,
                                          FSM_ULTRASOUND_NUM_MEASUREMENTS))
    IN  [w4 EXCEPT !.button.duration = d]

InitTiers ==
    \E p, c, o \in 1..MaxThreshold, d \in 0..(MaxThreshold + 1),
       rear, paused \in BOOLEAN, t \in {0} \cup PendingTicks :
        /\ p <= c
        /\ c <= o
        /\ StartIn(PressedWorld([debounce |-> 0, pause |-> p, change |-> c,
                                 on_off |-> o], d, rear, paused, t), 6)

SpecTiers == InitTiers /\ [][Loop]_vars

(***************************************************************************)
(* SpecRestart: a sensor that is stopped and started again in the middle   *)
(* of a batch.  The system is taken in MEASURE_FRONT, the front sensor     *)
(* having recorded one or two samples of a batch, at the orchestrator fire *)
(* that serves a completed press of the on/off tier; the loop and the      *)
(* interrupts then run as in Spec, for MaxMillisRestart milliseconds.      *)
(***************************************************************************)
RestartWorld(k, t) ==
    LET w0 == Built(ShortConfig)
        w1 == [do_start_up_measure(w0) EXCEPT !.urb.state = "MEASURE_FRONT"]
        w2 == Put(w1, "front", Echoes(Ctx(w1, "front"), t, k))
    IN  [w2 EXCEPT !.button.duration = ShortConfig.on_off]

InitRestart ==
    \E k \in 1..(FSM_ULTRASOUND_NUM_MEASUREMENTS - 1), t \in FallTicks :
        Resume(RestartWorld(k, t), 6,
               [s \in Sensors |->
                   IF s = "front" THEN [i \in 1..k |-> EchoDistance(0, 1, t)]
                   ELSE << >>])

SysTick_HandlerRestart == Tick(MaxMillisRestart)

NextRestart ==
    \/ Loop
    \/ SysTick_HandlerRestart
    \/ EXTI15_10_IRQHandler
    \/ EchoCapture
    \/ NewMeasurementTimer
    \/ TriggerTimer

SpecRestart == InitRestart /\ [][NextRestart]_vars

(***************************************************************************)
(* SpecResume: a sensor that is stopped in any state of its cycle and      *)
(* started again.  The system is taken in MEASURE_FRONT, the front sensor  *)
(* standing in one of its five states, at the orchestrator fire that       *)
(* serves a completed press of the on/off tier; the loop and the           *)
(* interrupts of the front sensor then run, with an obstacle at 10 cm and  *)
(* the shortest press thresholds.  The loop never stops; a timer that runs *)
(* expires and an edge of the echo pin is captured, at one of the points   *)
(* where the loop takes interrupts.                                        *)
(***************************************************************************)
UltrasoundStates ==
    {"WAIT_START", "TRIGGER_START", "WAIT_ECHO_START", "WAIT_ECHO_END",
     "SET_DISTANCE"}

\* The front sensor taken from fsm_ultrasound_start() to state st by the
\* fires and interrupts of one measurement cycle
CycleUpTo(x, st) ==
    LET pulsing == UltrasoundAfterFire(x)
        waiting == UltrasoundAfterFire([pulsing EXCEPT !.h.trigger_end = TRUE])
        hearing == UltrasoundAfterFire([waiting EXCEPT !.h.echo_init_tick = 1,
                                                       !.line = "fall"])
    IN  CASE st = "WAIT_START" -> x
          [] st = "TRIGGER_START" -> pulsing
          [] st = "WAIT_ECHO_START" -> waiting
          [] st = "WAIT_ECHO_END" -> hearing
          [] OTHER -> OneEcho(x, 600)

\* The shortest thresholds: a press of one millisecond turns the system on
\* or off.
ResumeConfig == [debounce |-> 0, pause |-> 1, change |-> 1, on_off |-> 1]

ResumeWorld(st) ==
    LET w0 == Built(ResumeConfig)
        w1 == [do_start_up_measure(w0) EXCEPT !.urb.state = "MEASURE_FRONT"]
        w2 == Put(w1, "front", CycleUpTo(Ctx(w1, "front"), st))
    IN  [w2 EXCEPT !.button.duration = ResumeConfig.on_off]

InitResume ==
    \E st \in UltrasoundStates :
        Resume(ResumeWorld(st), 6,
               [s \in Sensors |->
                   IF s = "front" /\ st = "SET_DISTANCE"
                   THEN << EchoDistance(0, 1, 600) >> ELSE << >>])

SysTick_HandlerResume == Tick(MaxMillisResume)

\* The obstacle in front stands at 10 cm.
FrontEchoCapture == TIM2_Capture("front", {600})

FrontNewMeasurementTimer == TIM_NewMeasurement_IRQHandler("front")

FrontTriggerTimer == TIM_Trigger_IRQHandler("front")

NextResume ==
    \/ Loop
    \/ SysTick_HandlerResume
    \/ EXTI15_10_IRQHandler
    \/ FrontEchoCapture
    \/ FrontNewMeasurementTimer
    \/ FrontTriggerTimer

SpecResume ==
    /\ InitResume
    /\ [][NextResume]_vars
    /\ WF_vars(Loop)
    /\ SF_vars(FrontEchoCapture)
    /\ SF_vars(FrontNewMeasurementTimer)
    /\ SF_vars(FrontTriggerTimer)

(***************************************************************************)
(* SpecWrap: the front sensor measuring, with echoes whose edges come      *)
(* early or late in the period of the echo timer, and the timer's update   *)
(* interrupt at any point of the cycle.  An echo pulse is shorter than one *)
(* period of the timer: the counter wraps at most once between the two     *)
(* edges, and the falling edge then reads less than the rising edge did.   *)
(* The echo pin tells "fall" (no wrap since the rising edge) from          *)
(* "wrapped" (one wrap since the rising edge).                             *)
(***************************************************************************)
\* Counter values read on a rising edge: just after the trigger, and late.
WrapRiseTicks == {1, 65000}

\* Counter values read on a falling edge
WrapFallTicks == {64, 600, 65500}

WrapWorld ==
    [do_start_up_measure(Built(ResumeConfig)) EXCEPT !.urb.state = "MEASURE_FRONT"]

InitWrap == StartIn(WrapWorld, 6)

\* TIM2 update event, the echo pin keeping track of a wrap inside the pulse
TIM2_IRQHandler_UIF_Wrap ==
    /\ InterruptPoint
    /\ tim2_on
    /\ \A s \in Sensors : hw[s].echo_overflows < MaxOverflows
    /\ \A s \in Sensors :
          echo_line[s] = "fall" =>
              \E t \in WrapFallTicks : t < hw[s].echo_init_tick
    /\ hw' = [s \in Sensors |->
                [hw[s] EXCEPT !.echo_overflows = @ + 1]]
    /\ echo_line' = [s \in Sensors |->
                        IF echo_line[s] = "fall" THEN "wrapped" ELSE echo_line[s]]
    /\ UNCHANGED << millis, pc, flag_pressed, button, us, tim2_on,
                    display, buzzer, urbanite, log, pulse_ms, off_iterations, batch >>

\* TIM2 capture event on the front channel
FrontWrapCapture ==
    TIM2_CaptureAt("front", WrapRiseTicks,
                   IF echo_line["front"] = "wrapped"
                   THEN {t \in WrapFallTicks : t < hw["front"].echo_init_tick}
                   ELSE {t \in WrapFallTicks : t > hw["front"].echo_init_tick})

NextWrap ==
    \/ Loop
    \/ TIM2_IRQHandler_UIF_Wrap
    \/ FrontWrapCapture
    \/ FrontNewMeasurementTimer
    \/ FrontTriggerTimer

SpecWrap == InitWrap /\ [][NextWrap]_vars

(***************************************************************************)
(* SpecSwap: a press of the change tier met by the orchestrator at the     *)
(* same fire as a new measurement.  The system is taken in MEASURE_FRONT,  *)
(* paused or not, at the orchestrator fire at which the front sensor has   *)
(* just completed a full window of echoes and the button holds a completed *)
(* press of the change threshold; the loop, the button and the interrupts  *)
(* of the front sensor then run.  The clock is counted from that fire, for *)
(* MaxMillisSwap milliseconds: the presses that follow are shorter than    *)
(* the change threshold.                                                   *)
(***************************************************************************)
SwapConfig == [debounce |-> 0, pause |-> 2, change |-> 4, on_off |-> 5]

InitSwap ==
    \E paused \in BOOLEAN, t \in FallTicks :
        StartIn(PressedWorld(SwapConfig, SwapConfig.change, FALSE, paused, t), 6)

SysTick_HandlerSwap == Tick(MaxMillisSwap)

NextSwap ==
    \/ Loop
    \/ SysTick_HandlerSwap
    \/ EXTI15_10_IRQHandler
    \/ FrontEchoCapture
    \/ FrontNewMeasurementTimer
    \/ FrontTriggerTimer

SpecSwap == InitSwap /\ [][NextSwap]_vars

(***************************************************************************)
(* SpecLevels: the colour and the sound computed for a distance.  The      *)
(* system is taken in MEASURE_FRONT with the front display and the buzzer  *)
(* switched on and a distance d just handed to both, as do_distance does,  *)
(* for every d from -DistanceMargin to OK_MAX_CM + DistanceMargin; their   *)
(* next fires compute and write the levels.                                *)
(***************************************************************************)
LevelsWorld(d) ==
    LET w0 == Built(ShortConfig)
        w1 == [do_start_up_measure(w0) EXCEPT !.urb.state = "MEASURE_FRONT"]
        on == [w1 EXCEPT
                 !.display["front"] =
                     DisplayAfterFire(fsm_display_set_status(@, TRUE)),
                 !.buzzer = BuzzerAfterFire(fsm_buzzer_set_status(@, TRUE))]
    IN  [on EXCEPT
           !.display["front"] = fsm_display_set_distance(@, d),
           !.buzzer = fsm_buzzer_set_distance(@, d),
           !.log = "DISTANCE_FRONT"]

InitLevels ==
    \E d \in (0 - DistanceMargin)..(OK_MAX_CM + DistanceMargin) :
        StartIn(LevelsWorld(d), 0)

SpecLevels == InitLevels /\ [][Loop]_vars

(***************************************************************************)
(* Properties                                                              *)
(***************************************************************************)
Measuring == urbanite.state \in {"MEASURE_FRONT", "MEASURE_REAR"}

\* The step is a fire of the orchestrator.
OrchestratorFires == pc = 6 /\ pc' = 0

\* C1: turning the system on always resumes on FRONT: whenever the
\* orchestrator is in MEASURE_FRONT is_rear is false, and whenever it is in
\* MEASURE_REAR is_rear is true, after any sequence of presses.
C1_ModeMatchesIsRear ==
    /\ urbanite.state = "MEASURE_FRONT" => ~urbanite.is_rear
    /\ urbanite.state = "MEASURE_REAR" => urbanite.is_rear

\* C2: cancellation: from fsm_ultrasound_stop() to the next
\* fsm_ultrasound_start() (the sensor is disabled before and after the step)
\* the sensor starts no trigger pulse (it does not enter TRIGGER_START),
\* records no sample (window and write index keep their values) and does not
\* set new_measurement, whatever flags the interrupts have set or set.
C2_StoppedSensorStaysIdle ==
    [][\A s \in Sensors :
         (~us[s].status /\ ~us'[s].status) =>
            /\ ~(us[s].state # "TRIGGER_START" /\ us'[s].state = "TRIGGER_START")
            /\ us'[s].distance_arr = us[s].distance_arr
            /\ us'[s].distance_idx = us[s].distance_idx
            /\ (us'[s].new_measurement => us[s].new_measurement)]_vars

\* The pin is low again after a pulse shorter than the debounce time.
ShortPulseOver == ~flag_pressed /\ pulse_ms < button.debounce_time_ms

\* C3: debounce rejects jitter: a press whose flag was raised and lowered
\* again within less than debounce_time_ms does not take the button FSM to
\* PRESSED.
C3_ShortPressRejected ==
    [][(button.state = "BUTTON_PRESSED_WAIT" /\ button'.state = "BUTTON_PRESSED")
          => ~ShortPulseOver]_vars

\* The pair (sensor, display) the orchestrator addresses
Live == IF urbanite.is_rear THEN "rear" ELSE "front"
NonLive == IF urbanite.is_rear THEN "front" ELSE "rear"

\* The orchestrator fires on a completed press of the pause tier.
PauseTierPress ==
    /\ OrchestratorFires
    /\ Measuring
    /\ button.duration > 0
    /\ button.duration >= urbanite.pause_display_time_ms
    /\ button.duration < urbanite.change_press_time_ms

\* C4: a pause-tier press in MEASURE_FRONT or MEASURE_REAR keeps the
\* orchestrator state, toggles is_paused and commands the live display and the
\* buzzer inactive when is_paused becomes true, active when it becomes false.
C4_PauseCommandsOutputs ==
    [][PauseTierPress =>
          /\ urbanite'.state = urbanite.state
          /\ urbanite'.is_paused = ~urbanite.is_paused
          /\ display'[Live].status = ~urbanite'.is_paused
          /\ buzzer'.status = ~urbanite'.is_paused]_vars

\* The orchestrator fire that consumes a new measurement of the live sensor
NewMeasurementTransition ==
    /\ OrchestratorFires
    /\ Measuring
    /\ us[Live].new_measurement
    /\ ~us'[Live].new_measurement

\* C5: pause-aware publication: on a new-measurement transition with distance
\* d of the live sensor, the live display and the buzzer receive d and are
\* commanded active if the system is not paused or d < 12; if it is paused and
\* d >= 12 they are commanded inactive and receive no distance.  The non-live
\* display is commanded inactive in every case.
C5_PauseAwarePublication ==
    [][NewMeasurementTransition =>
          LET d == us[Live].distance_cm
          IN  /\ ~display'[NonLive].status
              /\ IF ~urbanite.is_paused \/ d < 12
                 THEN /\ display'[Live].status
                      /\ display'[Live].distance_cm = d
                      /\ display'[Live].new_color
                      /\ buzzer'.status
                      /\ buzzer'.distance_cm = d
                      /\ buzzer'.new_sound
                 ELSE /\ ~display'[Live].status
                      /\ display'[Live].distance_cm = display[Live].distance_cm
                      /\ display'[Live].new_color = display[Live].new_color
                      /\ ~buzzer'.status
                      /\ buzzer'.distance_cm = buzzer.distance_cm
                      /\ buzzer'.new_sound = buzzer.new_sound]_vars

\* A distance of 11 cm has been published in rear mode while paused (danger
\* override).
C5_Witness ==
    /\ pc = 0
    /\ log = "DISTANCE_REAR"
    /\ urbanite.is_paused
    /\ us["rear"].distance_cm = 11
    /\ ~us["rear"].new_measurement
    /\ display["rear"].status
    /\ display["rear"].distance_cm = 11
    /\ buzzer.distance_cm = 11

\* The orchestrator fires, while measuring, on a completed press of duration d.
PressOf(d) == OrchestratorFires /\ Measuring /\ d > 0 /\ button.duration = d

\* C6: pause tier lower boundary: while measuring, a completed press of
\* exactly the pause threshold toggles is_paused; a press one unit shorter
\* (and > 0) is a no-op: it changes neither the orchestrator state, is_paused,
\* is_rear, the sensors' enablement nor the status of displays and buzzer (a
\* measurement pending at the same fire is published as without the press).
C6_PauseLowerBoundary ==
    [][/\ PressOf(urbanite.pause_display_time_ms) =>
             urbanite'.is_paused = ~urbanite.is_paused
       /\ PressOf(urbanite.pause_display_time_ms - 1) =>
             /\ urbanite' = urbanite
             /\ \A s \in Sensors : us'[s].status = us[s].status
             /\ button' = button
             /\ ~us[Live].new_measurement =>
                   /\ \A s \in Sensors : display'[s].status = display[s].status
                   /\ buzzer'.status = buzzer.status
                   /\ us' = us /\ hw' = hw /\ log' = log]_vars

\* A press one unit below the pause threshold has gone through an
\* orchestrator fire while measuring.
C6_Witness ==
    /\ pc = 0
    /\ Measuring
    /\ button.duration > 0
    /\ button.duration = urbanite.pause_display_time_ms - 1

\* The orchestrator fires, in OFF, on a press of the on/off tier.
TurnOnPress ==
    /\ OrchestratorFires
    /\ urbanite.state = "OFF"
    /\ button.duration > 0
    /\ button.duration >= urbanite.on_off_press_time_ms

\* C8: turn-on: in OFF, with a completed press of at least the on/off
\* threshold, the orchestrator fire moves to MEASURE_FRONT, enables the front
\* ultrasound (write index and distance reset, trigger-ready set), commands
\* the front display and the buzzer inactive and resets the duration to 0.
C8_TurnOn ==
    [][TurnOnPress =>
          /\ urbanite'.state = "MEASURE_FRONT"
          /\ us'["front"].status
          /\ us'["front"].distance_idx = 0
          /\ us'["front"].distance_cm = 0
          /\ hw'["front"].trigger_ready
          /\ ~display'["front"].status
          /\ ~buzzer'.status
          /\ button'.duration = 0]_vars

\* The system has just been turned on.
C8_Witness ==
    /\ pc = 0
    /\ log = "ON"
    /\ urbanite.state = "MEASURE_FRONT"
    /\ us["front"].status
    /\ button.duration = 0
    /\ button.tick_pressed = 0

\* Both sensors disabled, both displays and the buzzer commanded inactive,
\* not paused
AllOff ==
    /\ \A s \in Sensors : ~us[s].status /\ ~display[s].status
    /\ ~buzzer.status
    /\ ~urbanite.is_paused

\* The orchestrator fires, while measuring, on a press of the on/off tier.
TurnOffPress ==
    /\ OrchestratorFires
    /\ Measuring
    /\ button.duration > 0
    /\ button.duration >= urbanite.on_off_press_time_ms

\* C9: OFF-state invariant: whenever the orchestrator is OFF both ultrasound
\* sensors are disabled, both displays and the buzzer are commanded inactive
\* and is_paused is false; an off-tier press in MEASURE_FRONT or MEASURE_REAR
\* establishes this in one fire and resets the button duration to 0.
C9_OffInvariant ==
    /\ [](urbanite.state = "OFF" => AllOff)
    /\ [][TurnOffPress =>
             /\ urbanite'.state = "OFF"
             /\ AllOff'
             /\ button'.duration = 0]_vars

\* The system has been turned off while paused in rear mode, the rear
\* display and the buzzer having been commanded active.
C9_Witness ==
    /\ pc = 0
    /\ urbanite.state = "OFF"
    /\ log = "OFF"
    /\ urbanite.is_rear
    /\ off_iterations = 0
    /\ display["rear"].state = "SET_DISPLAY"
    /\ buzzer.state = "SET_BUZZER"

\* C10: while the system stays OFF the displays are off and the buzzer is
\* silent: from the end of the second loop iteration after the orchestrator
\* entered OFF, and until the system is turned on, each display FSM and the
\* buzzer FSM are in their WAIT state, the colour written is off and the sound
\* written is zero.
C10_OffOutputsQuiet ==
    (urbanite.state = "OFF" /\ off_iterations >= 2) =>
        /\ \A s \in Sensors :
              display[s].state = "WAIT_DISPLAY" /\ display[s].rgb = COLOR_OFF
        /\ buzzer.state = "WAIT_BUZZER"
        /\ buzzer.sound = 0

\* Two iterations after a turn-off that found the front display showing a
\* distance
C10_Witness ==
    /\ pc = 0
    /\ urbanite.state = "OFF"
    /\ log = "OFF"
    /\ off_iterations = 2
    /\ display["front"].distance_cm \in 0..200
    /\ ~display["front"].new_color
    /\ buzzer.distance_cm \in 0..200

SwapPress ==
    /\ OrchestratorFires
    /\ Measuring
    /\ button.duration > 0
    /\ button.duration >= urbanite.change_press_time_ms
    /\ button.duration < urbanite.on_off_press_time_ms
    /\ ~us[Live].new_measurement

\* C11: front/rear swap: in MEASURE_FRONT a completed press with
\* change <= duration < on_off, no new measurement pending, moves the
\* orchestrator to MEASURE_REAR in one fire, disables the front ultrasound,
\* enables the rear one, sets is_rear and resets the button duration to 0;
\* in MEASURE_REAR the same press moves back to MEASURE_FRONT, disables the
\* rear ultrasound, enables the front one and clears is_rear.
C11_Swap ==
    [][SwapPress =>
          /\ button'.duration = 0
          /\ IF urbanite.state = "MEASURE_FRONT"
             THEN /\ urbanite'.state = "MEASURE_REAR"
                  /\ ~us'["front"].status
                  /\ us'["rear"].status
                  /\ urbanite'.is_rear
             ELSE /\ urbanite'.state = "MEASURE_FRONT"
                  /\ ~us'["rear"].status
                  /\ us'["front"].status
                  /\ ~urbanite'.is_rear]_vars

\* A press has swapped rear for front: the front sensor runs again, the rear
\* one is stopped.
C11_Witness ==
    /\ pc = 0
    /\ urbanite.state = "MEASURE_FRONT"
    /\ log = "FRONT"
    /\ ~urbanite.is_rear
    /\ us["front"].status
    /\ ~us["rear"].status
    /\ button.duration = 0

\* The orchestrator fires with no press tier selected, no new measurement
\* pending and no machine reporting activity.
IdleAtFire ==
    /\ OrchestratorFires
    /\ ~urb_check_on(World)
    /\ ~check_pause(World)
    /\ ~check_front(World)
    /\ ~check_new_measure(World)
    /\ ~check_activity(World)

\* C12: sleep entry when idle: in MEASURE_FRONT (resp. MEASURE_REAR, OFF),
\* with no duration tier selected, no new measurement pending and button,
\* ultrasounds, displays and buzzer all reporting no activity, the next
\* orchestrator fire moves to SLEEP_WHILE_ON_FRONT (resp. SLEEP_WHILE_ON_REAR,
\* SLEEP_WHILE_OFF).
C12_SleepEntry ==
    [][IdleAtFire =>
          /\ urbanite.state = "OFF" => urbanite'.state = "SLEEP_WHILE_OFF"
          /\ urbanite.state = "MEASURE_FRONT" =>
                urbanite'.state = "SLEEP_WHILE_ON_FRONT"
          /\ urbanite.state = "MEASURE_REAR" =>
                urbanite'.state = "SLEEP_WHILE_ON_REAR"]_vars

\* The middle element of the samples b once sorted (Len(b) odd)
MiddleOf(b) ==
    CHOOSE m \in {b[i] : i \in 1..Len(b)} :
        /\ Cardinality({i \in 1..Len(b) : b[i] < m}) <= Len(b) \div 2
        /\ Cardinality({i \in 1..Len(b) : b[i] > m}) <= Len(b) \div 2

\* The step is the fire in which sensor s records a sample.
RecordingStep(s) ==
    us[s].state = "WAIT_ECHO_END" /\ us'[s].state = "SET_DISTANCE"

\* C13: batch median: between calls to start(), distance_cm of an ultrasound
\* FSM changes only in the fire that records the N-th sample of a batch, which
\* is the fire with write index N-1; in that step it becomes the middle
\* element of the sorted N samples of the batch and new_measurement is set;
\* recording any other sample leaves distance_cm and new_measurement as they
\* were.
C13_BatchMedian ==
    [][\A s \in Sensors :
          LET nth == Len(batch[s]) = FSM_ULTRASOUND_NUM_MEASUREMENTS - 1
          IN  /\ us'[s].distance_cm # us[s].distance_cm =>
                    \/ OrchestratorFires /\ s \in StartedBy(World)
                    \/ RecordingStep(s) /\ nth
              /\ RecordingStep(s) =>
                    /\ us[s].distance_idx = Len(batch[s])
                    /\ IF nth
                       THEN /\ us'[s].distance_cm =
                                 MiddleOf(Append(batch[s], Sample(Ctx(World, s))))
                            /\ us'[s].new_measurement
                       ELSE /\ us'[s].distance_cm = us[s].distance_cm
                            /\ us'[s].new_measurement = us[s].new_measurement]_vars

\* Stopped in the middle of a batch and started again, the front sensor has
\* completed a batch of unequal samples whose median it reports.
C13_Witness ==
    /\ pc = 2
    /\ log = "ON"
    /\ us["front"].status
    /\ us["front"].state = "SET_DISTANCE"
    /\ us["front"].new_measurement
    /\ us["front"].distance_idx = 0
    /\ batch["front"] = << >>
    /\ us["front"].distance_arr[1] < us["front"].distance_arr[3]
    /\ us["front"].distance_cm = us["front"].distance_arr[2]

\* The action of the row the orchestrator's fire takes ("none": no row)
FiredAction ==
    LET i == UrbaniteRow(World)
    IN  IF i = 0 THEN "none" ELSE fsm_trans_urbanite(World)[i].action

\* C14: read-and-clear versus peek: fsm_ultrasound_get_distance(), called by
\* do_distance on the live sensor, returns the current distance_cm (the value
\* published), sets new_measurement to false and changes nothing else of the
\* sensor: distance_cm, window, write index, status and FSM state keep their
\* values; fsm_ultrasound_get_new_measurement_ready(), called by the guards,
\* changes nothing: a fire whose guards all fail leaves both sensors as they
\* were and a second peek returns the same value.
C14_ReadAndClear ==
    [][OrchestratorFires =>
          /\ FiredAction = "do_distance" =>
                /\ us'[Live] = [us[Live] EXCEPT !.new_measurement = FALSE]
                /\ us'[NonLive] = us[NonLive]
                /\ hw' = hw
                /\ display'[Live].status =>
                      display'[Live].distance_cm = us[Live].distance_cm
          /\ FiredAction = "none" =>
                /\ us' = us
                /\ hw' = hw
                /\ \A s \in Sensors :
                      fsm_ultrasound_get_new_measurement_ready(us'[s]) =
                          fsm_ultrasound_get_new_measurement_ready(us[s])]_vars

\* A median of 20 cm has been read from the front sensor, whose window and
\* state are those the measurement left.
C14_Witness ==
    /\ pc = 0
    /\ log = "DISTANCE_FRONT"
    /\ ~us["front"].new_measurement
    /\ us["front"].state = "SET_DISTANCE"
    /\ us["front"].distance_cm = 20
    /\ us["front"].distance_arr = << 20, 20, 20 >>
    /\ us["front"].status
    /\ display["front"].distance_cm = 20

\* The step is a fire of the button FSM.
ButtonFires == pc = 0 /\ pc' = 1

\* The actions of the orchestrator that call fsm_button_reset_duration()
ResettingActions ==
    {"do_start_up_measure", "do_stop_urbanite", "do_pause", "do_change_rear",
     "do_change_front"}

\* C15: button duration as an event flag: duration is 0 at start-up and right
\* after reset_duration(); the button FSM writes it only in the transition
\* PRESSED -> RELEASED_WAIT that completes a press-and-release cycle, so that
\* through any other button fire it keeps its value, 0 included; nothing else
\* writes it.
C15_DurationEventFlag ==
    /\ button.duration = 0
    /\ [][button'.duration # button.duration =>
             \/ /\ ButtonFires
                /\ button.state = "BUTTON_PRESSED"
                /\ button'.state = "BUTTON_RELEASED_WAIT"
             \/ /\ OrchestratorFires
                /\ FiredAction \in ResettingActions
                /\ button'.duration = 0]_vars
    /\ [][(OrchestratorFires /\ FiredAction \in ResettingActions) =>
             button'.duration = 0]_vars

\* A second press has completed after the first was consumed and reset.
C15_Witness ==
    /\ pc = 1
    /\ log = "ON"
    /\ button.state = "BUTTON_RELEASED_WAIT"
    /\ button.duration > 0
    /\ button.tick_pressed > 0

\* The front display shows the colour of the distance it was last given.
Shown ==
    /\ display["front"].state = "SET_DISPLAY"
    /\ ~display["front"].new_color
    /\ display["front"].idle

\* The tiers of the colour scale: distances lo < d <= hi go from colour inf
\* to colour sup.
ColourTiers ==
    { [lo |-> DANGER_MIN_CM, hi |-> WARNING_MIN_CM,
       inf |-> COLOR_RED, sup |-> COLOR_YELLOW],
      [lo |-> WARNING_MIN_CM, hi |-> NO_PROBLEM_MIN_CM,
       inf |-> COLOR_YELLOW, sup |-> COLOR_GREEN],
      [lo |-> NO_PROBLEM_MIN_CM, hi |-> INFO_MIN_CM,
       inf |-> COLOR_GREEN, sup |-> COLOR_TURQUOISE],
      [lo |-> INFO_MIN_CM, hi |-> OK_MIN_CM,
       inf |-> COLOR_TURQUOISE, sup |-> COLOR_BLUE],
      [lo |-> OK_MIN_CM, hi |-> OK_MAX_CM,
       inf |-> COLOR_BLUE, sup |-> COLOR_OFF] }

Between(v, a, b) == (a <= v /\ v <= b) \/ (b <= v /\ v <= a)

\* C16: display colour mapping: the colour computed for a distance d is off
\* when d < 0 or d > 200, solid red for 0 <= d <= 5, the anchor colour at each
\* tier boundary (25 yellow, 50 green, 150 turquoise, 175 blue, 200 off), and
\* inside a tier every channel lies between the two anchor values of the tier
\* and within 0..255.
C16_ColourMapping ==
    Shown =>
        LET d == display["front"].distance_cm
            c == display["front"].rgb
        IN  /\ (d < 0 \/ d > 200) => c = COLOR_OFF
            /\ (0 <= d /\ d <= 5) => c = COLOR_RED
            /\ d = 25 => c = COLOR_YELLOW
            /\ d = 50 => c = COLOR_GREEN
            /\ d = 150 => c = COLOR_TURQUOISE
            /\ d = 175 => c = COLOR_BLUE
            /\ d = 200 => c = COLOR_OFF
            /\ \A ch \in 1..3 : c[ch] \in 0..255
            /\ \A t \in ColourTiers :
                  (t.lo < d /\ d <= t.hi) =>
                      \A ch \in 1..3 : Between(c[ch], t.inf[ch], t.sup[ch])

\* The colour of 100 cm, half way between green and turquoise, is shown.
C16_Witness ==
    /\ Shown
    /\ display["front"].distance_cm = 100
    /\ display["front"].rgb[1] > 0
    /\ display["front"].rgb[2] < 255
    /\ display["front"].rgb[3] > 0

\* The buzzer sounds at the level of the distance it was last given.
Sounding ==
    /\ buzzer.state = "SET_BUZZER"
    /\ ~buzzer.new_sound
    /\ buzzer.idle

C18_BuzzerFollowsDisplays ==
    [][OrchestratorFires =>
          (buzzer'.status <=>
              (display'["front"].status \/ display'["rear"].status))]_vars


\* C19: one live pair: at most one of the two ultrasound machines is enabled
\* in every reachable state, and whenever the orchestrator is in
\* MEASURE_FRONT, MEASURE_REAR or a SLEEP_WHILE_ON_* state exactly one is
\* enabled, the one of the side the state names, while the other is stopped.
C19_OneLivePair ==
    /\ ~(us["front"].status /\ us["rear"].status)
    /\ urbanite.state \in {"MEASURE_FRONT", "SLEEP_WHILE_ON_FRONT"} =>
          us["front"].status /\ ~us["rear"].status
    /\ urbanite.state \in {"MEASURE_REAR", "SLEEP_WHILE_ON_REAR"} =>
          us["rear"].status /\ ~us["front"].status

\* The system is back on the front side after two swaps: the front sensor,
\* stopped by the first swap, runs again and the rear one is stopped.
C19_Witness ==
    /\ urbanite.state = "MEASURE_FRONT"
    /\ log = "FRONT"
    /\ us["front"].status
    /\ ~us["rear"].status

\* The rows of the orchestrator table that match: source state equal to the
\* current state and guard true.
Matching ==
    { i \in DOMAIN fsm_trans_urbanite(World) :
        /\ fsm_trans_urbanite(World)[i].src = urbanite.state
        /\ fsm_trans_urbanite(World)[i].guard }

\* What the action procedure named a does to the machines.
Effect(a, w) ==
    CASE a = "do_start_up_measure" -> do_start_up_measure(w)
      [] a = "do_stop_urbanite" -> do_stop_urbanite(w)
      [] a = "do_pause" -> do_pause(w)
      [] a = "do_distance" -> do_distance(w)
      [] a = "do_change_rear" -> do_change_rear(w)
      [] a = "do_change_front" -> do_change_front(w)
      [] OTHER -> w

\* No row of the table matches in state cur.
Idles(table, cur) ==
    \A i \in DOMAIN table : ~(table[i].src = cur /\ table[i].guard)

\* A fire that finds the machine in state cur and leaves it in state next
\* took the first matching row of the table, or none if no row matches.
Dispatched(table, cur, next) ==
    LET hits == { i \in DOMAIN table : table[i].src = cur /\ table[i].guard }
    IN  IF hits = {} THEN next = cur
        ELSE \E i \in hits : (\A j \in hits : i <= j) /\ next = table[i].dst

\* The step is the fire number at of the loop body.
Fires(at) == pc = at /\ pc' = (at + 1) % 7

\* C20: engine dispatch: one fire of a machine executes at most one
\* transition, the first row in table order whose source state is the current
\* state and whose guard is true: the fire of the orchestrator leaves the
\* machines as the action of that row alone leaves them, in the destination
\* state of that row, and the fires of the button, the sensors, the displays
\* and the buzzer move to the destination of their first matching row.  If
\* no row matches, the fire changes neither the state nor anything else.
C20_EngineDispatch ==
    /\ [][OrchestratorFires =>
            IF Matching = {} THEN World' = World
            ELSE \E i \in Matching :
                    /\ \A j \in Matching : i <= j
                    /\ World' =
                         [Effect(fsm_trans_urbanite(World)[i].action, World)
                            EXCEPT !.urb.state = fsm_trans_urbanite(World)[i].dst]]_vars
    /\ [][Fires(0) =>
            /\ Dispatched(fsm_trans_button, button.state, button'.state)
            /\ Idles(fsm_trans_button, button.state) => button' = button]_vars
    /\ [][\A s \in Sensors :
            Fires(IF s = "front" THEN 1 ELSE 3) =>
                /\ Dispatched(fsm_trans_ultrasound(Ctx(World, s)),
                              us[s].state, us'[s].state)
                /\ Idles(fsm_trans_ultrasound(Ctx(World, s)), us[s].state) =>
                      World' = World]_vars
    /\ [][\A s \in Sensors :
            Fires(IF s = "front" THEN 2 ELSE 4) =>
                /\ Dispatched(fsm_trans_display(display[s]),
                              display[s].state, display'[s].state)
                /\ Idles(fsm_trans_display(display[s]), display[s].state) =>
                      display' = display]_vars
    /\ [][Fires(5) =>
            /\ Dispatched(fsm_trans_buzzer(buzzer), buzzer.state, buzzer'.state)
            /\ Idles(fsm_trans_buzzer(buzzer), buzzer.state) =>
                  buzzer' = buzzer]_vars

\* A press of the pause tier was served while a measurement was pending: the
\* rows of do_pause and of do_distance both matched, the first of them ran and
\* the measurement is still pending.
C20_Witness ==
    /\ pc = 0
    /\ Measuring
    /\ log \in {"PAUSE", "RESUME"}
    /\ button.duration = 0
    /\ us[Live].new_measurement

\* C21: idle and activity of display and buzzer: in every reachable state
\* idle is true only if the current colour or sound has been applied and no
\* new one is pending (idle implies not new_color, not new_sound), so that
\* check_activity() is true whenever the status is active and a repaint is
\* pending.
C21_IdleMeansNothingPending ==
    /\ \A s \in Sensors :
          /\ display[s].idle => ~display[s].new_color
          /\ (display[s].status /\ display[s].new_color) =>
                fsm_display_check_activity(display[s])
    /\ buzzer.idle => ~buzzer.new_sound
    /\ (buzzer.status /\ buzzer.new_sound) => fsm_buzzer_check_activity(buzzer)

\* C22: stop() is idempotent: from any ultrasound state, calling
\* fsm_ultrasound_stop() twice in a row leaves exactly the same FSM and
\* hardware state as calling it once: status disabled, echo ticks, overflow
\* count and echo_received cleared, the trigger, echo and measurement timers
\* halted.
C22_StopIdempotent ==
    \A s \in Sensors :
        LET once == fsm_ultrasound_stop(Ctx(World, s))
        IN  /\ fsm_ultrasound_stop(once) = once
            /\ ~once.u.status
            /\ once.u.state = us[s].state
            /\ once.h.echo_init_tick = 0
            /\ once.h.echo_end_tick = 0
            /\ once.h.echo_overflows = 0
            /\ ~once.h.echo_received
            /\ ~once.h.trigger_timer
            /\ ~once.h.measurement_timer
            /\ ~once.tim2

\* The front sensor was stopped in the middle of a measurement cycle, and
\* the state it was left in is the state a further stop() leaves.
C22_Witness ==
    /\ log = "OFF"
    /\ us["front"].state \in {"TRIGGER_START", "WAIT_ECHO_START", "WAIT_ECHO_END"}
    /\ ~us["front"].status
    /\ fsm_ultrasound_stop(Ctx(World, "front")) = Ctx(World, "front")

\* The step is the fire of the ultrasound machine of sensor s.
UltrasoundFires(s) == Fires(IF s = "front" THEN 1 ELSE 3)

\* C23: SET_DISTANCE priority: when an ultrasound machine is in SET_DISTANCE
\* with trigger-ready set and the sensor disabled, its next fire takes the
\* trigger-ready row: it goes to TRIGGER_START and starts a new measurement
\* (trigger pin raised, trigger-ready consumed, timers running).  It goes to
\* WAIT_START and stops the sensor only when the sensor is disabled and
\* trigger-ready is not set.
C23_SetDistancePriority ==
    [][\A s \in Sensors :
        (UltrasoundFires(s) /\ us[s].state = "SET_DISTANCE") =>
            /\ hw[s].trigger_ready =>
                  /\ us'[s].state = "TRIGGER_START"
                  /\ hw'[s].trigger_pin
                  /\ ~hw'[s].trigger_ready
                  /\ hw'[s].trigger_timer
                  /\ hw'[s].measurement_timer
                  /\ tim2_on'
                  /\ us'[s].status = us[s].status
            /\ (~hw[s].trigger_ready /\ ~us[s].status) =>
                  /\ us'[s].state = "WAIT_START"
                  /\ ~hw'[s].trigger_timer
                  /\ ~hw'[s].measurement_timer
                  /\ ~tim2_on'
            /\ us'[s].state = "WAIT_START" =>
                  ~hw[s].trigger_ready /\ ~us[s].status]_vars

\* A sensor that was disabled in SET_DISTANCE with trigger-ready set has
\* raised its trigger pin for a new measurement.
C23_Witness ==
    \E s \in Sensors :
        /\ us[s].state = "TRIGGER_START"
        /\ ~us[s].status
        /\ hw[s].trigger_pin

\* The step is the fire of the display machine of side s.
DisplayFires(s) == Fires(IF s = "front" THEN 2 ELSE 4)

\* The display of side s has fired in the current loop iteration and the
\* orchestrator has not yet.
AfterDisplayFire(s) == pc > (IF s = "front" THEN 2 ELSE 4)

\* C24: publication reaches the display: when the orchestrator publishes a
\* distance d with status active, the live display stores d, status active
\* and a pending colour; a display in SET_DISPLAY with a pending colour
\* paints colour(d) on its fire, clears new_color and sets idle; a display in
\* WAIT_DISPLAY commanded active outputs the off colour on its fire, goes to
\* SET_DISPLAY and keeps the pending colour for the following fire.  Once the
\* display has fired in an iteration, a colour still pending on an active
\* display is pending in SET_DISPLAY with the off colour shown, so that it is
\* painted at the latest in the second iteration after the publication.
C24_PublicationReachesDisplay ==
    /\ [][(OrchestratorFires /\ FiredAction = "do_distance"
             /\ display'[Live].status) =>
            /\ display'[Live].distance_cm = us[Live].distance_cm
            /\ display'[Live].new_color
            /\ display'[Live].state = display[Live].state]_vars
    /\ [][\A s \in Sensors :
            (DisplayFires(s) /\ display[s].state = "SET_DISPLAY"
               /\ display[s].new_color) =>
                /\ display'[s].state = "SET_DISPLAY"
                /\ display'[s].rgb = compute_display_levels(display[s].distance_cm)
                /\ ~display'[s].new_color
                /\ display'[s].idle]_vars
    /\ [][\A s \in Sensors :
            (DisplayFires(s) /\ display[s].state = "WAIT_DISPLAY"
               /\ display[s].status) =>
                /\ display'[s].state = "SET_DISPLAY"
                /\ display'[s].rgb = COLOR_OFF
                /\ display'[s].new_color = display[s].new_color
                /\ display'[s].distance_cm = display[s].distance_cm]_vars
    /\ [](\A s \in Sensors :
            (AfterDisplayFire(s) /\ display[s].status /\ display[s].new_color) =>
                /\ display[s].state = "SET_DISPLAY"
                /\ display[s].rgb = COLOR_OFF)

\* The front display, which was in WAIT_DISPLAY when the first median of
\* 20 cm was published, has painted the colour of 20 cm.
C24_Witness ==
    /\ pc = 3
    /\ display["front"].state = "SET_DISPLAY"
    /\ display["front"].status
    /\ display["front"].distance_cm = 20
    /\ display["front"].rgb = compute_display_levels(20)
    /\ display["front"].rgb # COLOR_OFF
    /\ display["front"].idle
    /\ ~display["front"].new_color

\* C25: after fsm_ultrasound_start() new_measurement is false and stays
\* false until N samples have been recorded since that start, so that every
\* distance the orchestrator publishes is a batch median computed after the
\* most recent start of the sensor it is read from, and the value 0 that
\* start() writes is never published as a measurement (the obstacles stand
\* at 10 cm or more, so that no median is 0).
C25_NoPublicationBeforeBatch ==
    /\ [][\A s \in Sensors :
            (OrchestratorFires /\ s \in StartedBy(World)) =>
                ~us'[s].new_measurement]_vars
    /\ [][\A s \in Sensors :
            (UltrasoundFires(s) /\ ~us[s].new_measurement
               /\ us'[s].new_measurement) =>
                Len(batch[s]) = FSM_ULTRASOUND_NUM_MEASUREMENTS - 1]_vars
    /\ [][(OrchestratorFires /\ FiredAction = "do_distance") =>
            us[Live].distance_cm # 0]_vars

\* The front sensor was started by do_start_up_measure and the orchestrator
\* has run no action since.
FrontStarted == log = "ON" /\ urbanite.state = "MEASURE_FRONT"

\* C26: restart liveness: in whatever state of its cycle the front sensor
\* was when stop() was called, a later start() leads to a new trigger pulse
\* and, the echoes returning, to a new published distance, unless a press is
\* served first; the loop keeps running, the timers that run expire and the
\* echo edges are captured.
C26_RestartLiveness ==
    /\ FrontStarted ~> (hw["front"].trigger_pin \/ ~FrontStarted)
    /\ FrontStarted ~> ~FrontStarted

\* C27: start() re-aligns the batch: whenever the orchestrator calls
\* start() on a sensor, also in the middle of a batch, distance_cm and the
\* write index of that sensor become 0; from then on the write index counts
\* the samples recorded since that start, and the next change of distance_cm
\* happens in the fire that records the N-th of them and yields the median of
\* those N samples alone.
C27_StartRealignsBatch ==
    /\ [][\A s \in Sensors :
            (OrchestratorFires /\ s \in StartedBy(World)) =>
                /\ us'[s].distance_cm = 0
                /\ us'[s].distance_idx = 0
                /\ us'[s].status]_vars
    /\ [](\A s \in Sensors : us[s].distance_idx = Len(batch[s]))
    /\ [][\A s \in Sensors :
            (UltrasoundFires(s) /\ us'[s].distance_cm # us[s].distance_cm) =>
                /\ Records(Ctx(World, s))
                /\ Len(batch[s]) = FSM_ULTRASOUND_NUM_MEASUREMENTS - 1
                /\ us'[s].distance_cm =
                      MiddleOf(Append(batch[s], Sample(Ctx(World, s))))]_vars

\* The front sensor has just been started again in the middle of a batch:
\* the window still holds a sample of the batch that was cut short, the
\* write index and distance_cm are 0.
C27_Witness ==
    /\ pc = 0
    /\ log = "ON"
    /\ urbanite.state = "MEASURE_FRONT"
    /\ us["front"].status
    /\ us["front"].distance_idx = 0
    /\ us["front"].distance_cm = 0
    /\ batch["front"] = << >>
    /\ us["front"].distance_arr[1] # 0
    /\ us["front"].distance_arr[FSM_ULTRASOUND_NUM_MEASUREMENTS] = 0

\* The changes of state of the ultrasound cycle
UltrasoundSequence ==
    { << "WAIT_START", "TRIGGER_START" >>,
      << "TRIGGER_START", "WAIT_ECHO_START" >>,
      << "WAIT_ECHO_START", "WAIT_ECHO_END" >>,
      << "WAIT_ECHO_END", "SET_DISTANCE" >>,
      << "SET_DISTANCE", "TRIGGER_START" >>,
      << "SET_DISTANCE", "WAIT_START" >> }

\* C28: ultrasound sequencing: the state of an ultrasound machine changes
\* only in its own fire and only along WAIT_START -> TRIGGER_START ->
\* WAIT_ECHO_START -> WAIT_ECHO_END -> SET_DISTANCE -> (TRIGGER_START or
\* WAIT_START); WAIT_START is left only when the sensor is enabled and
\* trigger-ready is set; a trigger pulse is started exactly in the steps that
\* enter TRIGGER_START and a sample is recorded exactly in the steps from
\* WAIT_ECHO_END to SET_DISTANCE, so that between two consecutive recorded
\* samples exactly one trigger pulse was started.
C28_UltrasoundSequencing ==
    /\ [][\A s \in Sensors :
            us'[s].state # us[s].state =>
                /\ UltrasoundFires(s)
                /\ << us[s].state, us'[s].state >> \in UltrasoundSequence]_vars
    /\ [][\A s \in Sensors :
            (us[s].state = "WAIT_START" /\ us'[s].state # "WAIT_START") =>
                us[s].status /\ hw[s].trigger_ready]_vars
    /\ [][\A s \in Sensors :
            (~hw[s].trigger_pin /\ hw'[s].trigger_pin) <=>
                (us[s].state # "TRIGGER_START" /\ us'[s].state = "TRIGGER_START")]_vars
    /\ [][\A s \in Sensors :
            (UltrasoundFires(s) /\ us'[s].distance_idx # us[s].distance_idx) <=>
                RecordingStep(s)]_vars

\* The front sensor has recorded its second sample, one pulse after the
\* first.
C28_Witness ==
    /\ pc = 2
    /\ us["front"].state = "SET_DISTANCE"
    /\ us["front"].status
    /\ us["front"].distance_idx = 2
    /\ Len(batch["front"]) = 2
    /\ ~hw["front"].trigger_pin

\* No edge of the echo of sensor s has been captured since its ticks were
\* last reset
NoEchoEdge(s) ==
    /\ hw[s].echo_init_tick = 0
    /\ hw[s].echo_end_tick = 0
    /\ ~hw[s].echo_received

\* C29: a lost echo is quiescence, not a fault.  With no echo edge ever
\* reported, a sensor that has sent its trigger pulse is in WAIT_ECHO_START
\* and every fire leaves it there with its fields as they were (a fire in
\* WAIT_ECHO_END before the falling edge does the same); the sensor never
\* reaches SET_DISTANCE, so its distance_cm is never rewritten by a fire and
\* its new_measurement is never set; the fire of the waiting sensor returns
\* to the loop, which goes on to the next machine, and touches none of the
\* other machines.
C29_LostEchoQuiescence ==
    /\ [](\A s \in Sensors :
            /\ NoEchoEdge(s)
            /\ us[s].state \in {"WAIT_START", "TRIGGER_START", "WAIT_ECHO_START"}
            /\ ~us[s].new_measurement)
    /\ [][\A s \in Sensors :
            (UltrasoundFires(s) /\ us[s].state = "WAIT_ECHO_START") =>
                /\ us'[s] = us[s]
                /\ hw'[s] = hw[s]]_vars
    /\ [][\A s \in Sensors :
            (UltrasoundFires(s) /\ us[s].state = "WAIT_ECHO_END"
                                /\ ~hw[s].echo_received) =>
                us'[s] = us[s]]_vars
    /\ [][\A s \in Sensors :
            us'[s].distance_cm # us[s].distance_cm =>
                urbanite'.state # urbanite.state]_vars
    /\ [][\A s \in Sensors :
            (pc = (IF s = "front" THEN 1 ELSE 3)
                /\ us[s].state = "WAIT_ECHO_START") =>
                /\ pc' \in {pc, pc + 1}
                /\ UNCHANGED << button, display, buzzer, urbanite >>]_vars

\* The front sensor, the live one, has waited for its echo while the echo
\* timer overflowed and the measurement period elapsed again.
C29_Witness ==
    /\ pc = 2
    /\ urbanite.state = "MEASURE_FRONT"
    /\ us["front"].state = "WAIT_ECHO_START"
    /\ us["front"].status
    /\ ~hw["front"].trigger_pin
    /\ hw["front"].trigger_ready
    /\ hw["front"].echo_overflows = MaxOverflows
    /\ tim2_on

\* The width of the echo pulse of sensor s, in timer ticks: the counter at
\* the falling edge minus the counter at the rising edge, one period more
\* when the counter wrapped in between.
EchoPulseWidth(s) ==
    (hw[s].echo_end_tick + TimerModulus - hw[s].echo_init_tick) % TimerModulus

\* C30: echo time with timer wrap: in every measurement cycle the elapsed
\* time used for the sample, (end_tick + overflows * 65536) - init_tick, is
\* the width of the echo pulse in timer ticks, when the echo timer wraps once
\* between the two edges and wherever the timer's overflow interrupt falls
\* relative to the trigger and the rising edge.
C30_EchoTimeIsPulseWidth ==
    [][\A s \in Sensors :
          RecordingStep(s) =>
              EchoTime(hw[s].echo_overflows, hw[s].echo_init_tick,
                       hw[s].echo_end_tick) = << 0, EchoPulseWidth(s) >>]_vars

\* The changes of state of the button cycle
ButtonCycle ==
    { << "BUTTON_RELEASED", "BUTTON_PRESSED_WAIT" >>,
      << "BUTTON_PRESSED_WAIT", "BUTTON_PRESSED" >>,
      << "BUTTON_PRESSED", "BUTTON_RELEASED_WAIT" >>,
      << "BUTTON_RELEASED_WAIT", "BUTTON_RELEASED" >> }

ButtonWaits == button.state \in {"BUTTON_PRESSED_WAIT", "BUTTON_RELEASED_WAIT"}

\* C31: button cycle: the state of the button machine changes only in its own
\* fire and only along RELEASED -> PRESSED_WAIT -> PRESSED -> RELEASED_WAIT ->
\* RELEASED; next_timeout is the time of the fire that saw the press or the
\* release plus debounce_time_ms; in a WAIT state a change of the pressed
\* flag changes nothing of the machine, a fire with the clock not above
\* next_timeout leaves the machine as it is whatever the flag, and a fire
\* with the clock strictly above it leaves the WAIT state.
C31_ButtonCycle ==
    /\ [][button'.state # button.state =>
             /\ ButtonFires
             /\ << button.state, button'.state >> \in ButtonCycle]_vars
    /\ [][(~ButtonWaits /\ ButtonWaits') =>
             /\ button'.next_timeout = millis + button.debounce_time_ms
             /\ button.state = "BUTTON_RELEASED" => button'.tick_pressed = millis]_vars
    /\ [][(ButtonWaits /\ flag_pressed' # flag_pressed) =>
             button' = button]_vars
    /\ [][(ButtonWaits /\ ButtonFires) =>
             /\ millis <= button.next_timeout => button' = button
             /\ millis > button.next_timeout => ~ButtonWaits']_vars

\* A whole cycle has been walked with a debounce time to wait for: the
\* button is back in RELEASED with the duration of the press recorded.
C31_Witness ==
    /\ pc = 1
    /\ button.state = "BUTTON_RELEASED"
    /\ button.debounce_time_ms > 0
    /\ button.duration > button.debounce_time_ms
    /\ millis > button.next_timeout
    /\ flag_pressed

\* The button's fire sees the release of a press: PRESSED -> RELEASED_WAIT
ReleaseSeen ==
    /\ ButtonFires
    /\ button.state = "BUTTON_PRESSED"
    /\ button'.state = "BUTTON_RELEASED_WAIT"

\* C32: recorded durations exceed the debounce time: the button machine
\* writes duration only in the fire that sees the release, and the value
\* written is the clock at that fire minus tick_pressed, strictly greater
\* than debounce_time_ms and so never 0 (the clock being monotonic and not
\* wrapping within the press).
C32_DurationExceedsDebounce ==
    /\ [][ReleaseSeen =>
             /\ button'.duration = millis - button.tick_pressed
             /\ button'.duration > button.debounce_time_ms
             /\ button'.duration # 0]_vars
    /\ [][(ButtonFires /\ button'.duration # button.duration) =>
             ReleaseSeen]_vars

\* The shortest press the machine records with a debounce time of 2 ms
C32_Witness ==
    /\ pc = 1
    /\ button.state = "BUTTON_RELEASED_WAIT"
    /\ button.debounce_time_ms = 2
    /\ button.duration = 3
    /\ millis = button.tick_pressed + 3

BuzzerFires == Fires(5)

\* C33: a display or the buzzer never produces output while commanded
\* inactive: no fire of a display machine at which status is false leaves a
\* colour other than off written, and no fire of the buzzer machine at which
\* status is false leaves a sound other than zero written, a colour or a
\* sound still pending when the status was set to inactive included.
C33_NoOutputWhileInactive ==
    /\ [][\A s \in Sensors :
            (DisplayFires(s) /\ ~display[s].status) =>
                display'[s].rgb = COLOR_OFF]_vars
    /\ [][(BuzzerFires /\ ~buzzer.status) => buzzer'.sound = 0]_vars

\* A completed press of the change tier is held by the button.
SwapTier ==
    /\ button.duration > 0
    /\ button.duration >= urbanite.change_press_time_ms
    /\ button.duration < urbanite.on_off_press_time_ms

\* C34: measurement before swap: while measuring, when a new measurement of
\* the live sensor and a press of the change tier are pending at the same
\* orchestrator fire, that fire is the publication (state, is_rear and
\* is_paused unchanged, button untouched, measurement consumed); the press
\* is kept by every step up to the next orchestrator fire; and that fire,
\* which finds no new measurement, performs the swap with the same duration
\* and resets it.
C34_MeasurementBeforeSwap ==
    /\ [][(OrchestratorFires /\ Measuring /\ SwapTier /\ us[Live].new_measurement) =>
             /\ urbanite' = urbanite
             /\ button' = button
             /\ log' = (IF urbanite.is_rear THEN "DISTANCE_REAR" ELSE "DISTANCE_FRONT")
             /\ ~us'[Live].new_measurement
             /\ us'[Live].status]_vars
    /\ [][(Measuring /\ SwapTier /\ ~OrchestratorFires) =>
             button'.duration = button.duration]_vars
    /\ [][(OrchestratorFires /\ Measuring /\ SwapTier
              /\ log \in {"DISTANCE_FRONT", "DISTANCE_REAR"}) =>
             /\ ~us[Live].new_measurement
             /\ urbanite'.state =
                   (IF urbanite.is_rear THEN "MEASURE_FRONT" ELSE "MEASURE_REAR")
             /\ urbanite'.is_rear = ~urbanite.is_rear
             /\ button'.duration = 0
             /\ log' = (IF urbanite.is_rear THEN "FRONT" ELSE "REAR")]_vars

\* The swap to the rear has followed the publication of the front
\* measurement that was pending with the press.
C34_Witness ==
    /\ pc = 0
    /\ urbanite.state = "MEASURE_REAR"
    /\ urbanite.is_rear
    /\ log = "REAR"
    /\ button.duration = 0
    /\ display["front"].distance_cm = 10
    /\ us["rear"].status
    /\ ~us["front"].status

\* C35: one press, at most one action: every orchestrator transition taken
\* on a duration guard (turn on, turn off, pause toggle, swap) finds a
\* duration above 0 and resets it to 0 in the same fire; the orchestrator
\* changes its state, is_paused or is_rear in such a transition only; and a
\* duration of 0 becomes positive only when the button sees the release of a
\* new press.  A completed press therefore never triggers two
\* duration-guarded transitions.
C35_OnePressOneAction ==
    /\ [][(OrchestratorFires /\ FiredAction \in ResettingActions) =>
             /\ button.duration > 0
             /\ button'.duration = 0]_vars
    /\ [][(OrchestratorFires /\ urbanite' # urbanite) =>
             /\ FiredAction \in ResettingActions
             /\ button'.duration = 0]_vars
    /\ [][(button.duration = 0 /\ button'.duration > 0) => ReleaseSeen]_vars

\* A press of the pause tier has been served once and is gone.
C35_Witness ==
    /\ pc = 0
    /\ log = "PAUSE"
    /\ urbanite.is_paused
    /\ urbanite.state = "MEASURE_FRONT"
    /\ button.duration = 0
    /\ button.state = "BUTTON_RELEASED_WAIT"

\* C36: presses below the on/off threshold while OFF have no effect, now or
\* later: an orchestrator fire in OFF with a duration below the on/off
\* threshold (0 included) changes nothing of the orchestrator, the button,
\* the sensors, the displays and the buzzer; while the system stays OFF the
\* duration left in the button changes only when the release of a new press
\* is seen; and the fire that turns the system on is served by a press of at
\* least the on/off threshold and leaves the duration at 0, so that nothing is
\* left for a pause or a swap.
C36_ShortPressWhileOff ==
    /\ [][(OrchestratorFires /\ urbanite.state = "OFF"
              /\ button.duration < urbanite.on_off_press_time_ms) =>
             UNCHANGED << urbanite, button, us, hw, tim2_on, display, buzzer, log >>]_vars
    /\ [][(urbanite.state = "OFF" /\ urbanite'.state = "OFF"
              /\ button'.duration # button.duration) => ReleaseSeen]_vars
    /\ [][(urbanite.state = "OFF" /\ urbanite'.state # "OFF") =>
             /\ OrchestratorFires
             /\ button.duration >= urbanite.on_off_press_time_ms
             /\ urbanite'.is_paused = urbanite.is_paused
             /\ urbanite'.is_rear = urbanite.is_rear
             /\ button'.duration = 0]_vars

\* A press of the pause tier made while OFF has been seen by the
\* orchestrator and is still held by the button, the system being OFF.
C36_Witness ==
    /\ pc = 0
    /\ urbanite.state = "OFF"
    /\ button.state = "BUTTON_RELEASED"
    /\ button.duration >= urbanite.pause_display_time_ms
    /\ button.duration < urbanite.change_press_time_ms
    /\ \A s \in Sensors : ~us[s].status /\ ~display[s].status
    /\ ~buzzer.status

\* The orchestrator's fire is a swap of front and rear.
SwapFires ==
    /\ OrchestratorFires
    /\ FiredAction \in {"do_change_rear", "do_change_front"}

\* C37: frame of a swap: a front/rear swap leaves is_paused and the three
\* press-time thresholds unchanged and commands both displays inactive, and
\* both displays stay commanded inactive until the newly started sensor
\* completes its first batch: in MEASURE_REAR, which only a swap enters, as
\* long as the rear sensor still holds the distance 0 that start() gave it.
C37_SwapFrame ==
    /\ [][SwapFires =>
             /\ urbanite'.is_paused = urbanite.is_paused
             /\ urbanite'.pause_display_time_ms = urbanite.pause_display_time_ms
             /\ urbanite'.change_press_time_ms = urbanite.change_press_time_ms
             /\ urbanite'.on_off_press_time_ms = urbanite.on_off_press_time_ms
             /\ \A s \in Sensors : ~display'[s].status]_vars
    /\ []((urbanite.state = "MEASURE_REAR" /\ us["rear"].distance_cm = 0) =>
             \A s \in Sensors : ~display[s].status)

\* The button holds a completed press of a tier that the orchestrator
\* recognises in its current state: on in OFF; off, pause or swap while
\* measuring.
Recognised ==
    /\ button.duration > 0
    /\ IF urbanite.state = "OFF"
       THEN button.duration >= urbanite.on_off_press_time_ms
       ELSE Measuring /\ button.duration >= urbanite.pause_display_time_ms

C39_AtMostOneDisplayActive ==
    /\ ~(display["front"].status /\ display["rear"].status)
    /\ ~display[IF urbanite.is_rear THEN "front" ELSE "rear"].status

\* The rear display is commanded active after a swap away from the front
\* side, whose display had shown a published distance before the swap and is
\* now commanded inactive.
C39_Witness ==
    /\ urbanite.state = "MEASURE_REAR"
    /\ urbanite.is_rear
    /\ display["rear"].status
    /\ ~display["front"].status
    /\ display["front"].distance_cm > 0

=============================================================================
